---------------------------- MODULE Spec2Model ----------------------------
(***************************************************************************)
(* A model of the HashLife-style quad tree of etherjag/GOL                 *)
(* (quad_tree.cpp, quad_tree_node.cpp, quad_tree_node.h, quad_tree.h,      *)
(* quad_tree_config.h) under the shipped configuration:                    *)
(*   ENABLE_BIG_INT = 1, ENABLE_INFINITE_LEVELS = 0,                       *)
(*   ENABLE_GARBAGE_COLLECTION = 1, GARBAGE_COLLECTION_MODE_GENERATIONS.   *)
(*                                                                         *)
(* A QuadTreeNode* is a handle: a positive integer, 0 being the null       *)
(* pointer.  node_map maps the handle of every node that is allocated and  *)
(* held by the static unordered_map to the node's fields (the map's key    *)
(* and value are the same pointer, and a node is deleted exactly when it   *)
(* is erased, so one function models both the heap and the map).  `new`    *)
(* returns an address never handed out before: the handle of the k-th node *)
(* ever created is k, the value num_nodes_created has once the node is     *)
(* counted.                                                                *)
(*                                                                         *)
(* The node-level functions of the source read and extend the static       *)
(* node_map; here each takes the store h = [map, created, log] and returns *)
(* it extended, with the returned pointer in the field node.               *)
(*                                                                         *)
(* A statement `T* x = E;` followed by the statements B is written         *)
(*     CHOOSE r \in { B : x \in {E} } : TRUE                               *)
(* (the one element of the set), so that E is evaluated once, before B.    *)
(* A sequence of statements is a nest of these, the first statement on the *)
(* last line: the bindings are read from the bottom line upwards.          *)
(***************************************************************************)
EXTENDS Integers, Sequences, FiniteSets, TLC

VARIABLES
    node_map,           \* QuadTreeNode::node_map: handle -> fields of the node
    num_nodes_created,  \* QuadTreeNode::num_nodes_created
    root,               \* QuadTree::root
    num_generations,    \* QuadTree::num_generations
    mpz_above_null,     \* what `population > 0` on the mpz_t member yields in this build
    cells,              \* ghost: the live cells by Conway's rule on the unbounded grid
    inserts,            \* ghost: number of SetCellAlive calls made
    evolved,            \* ghost: node -> what Evolve returned for it, for nodes still stored
    swept,              \* ghost: the last operation ended with a sweep of CollectGarbage
    last_call,          \* ghost: the operation that was called last, and how it ended
    steps_evolved,      \* ghost: number of Step calls that went on to Evolve
    history,            \* ghost: what the root showed after the last insertion and
                        \*        after each Step that evolved since
    display,            \* ghost: the level of the node BuildDisplayList was last
                        \*        entered on, and the offset it computed there
    hashed,             \* ghost: the four child pointers HashFunction was last
                        \*        applied to, and the hash it returned
    unswept,            \* ghost: the store, the root and the generation counter of the
                        \*        universe in which CollectGarbage never sweeps
    other               \* the root of a second QuadTree object of the process, and
                        \* whether that object is not yet constructed, alive or destroyed

vars ==
    <<node_map, num_nodes_created, root, num_generations, mpz_above_null,
      cells, inserts, evolved, swept, last_call, steps_evolved, history, display, hashed, unswept, other>>

-----------------------------------------------------------------------------
(* Bounds of the model *)

\* SetCellAlive and SetCellsAlive calls explored
MaxInserts == 2

\* The greatest level EmptyQuadTree is called with on its own
MaxEmptyLevel == 6

\* Step stops being explored once num_generations reaches this value
MaxGenerations == 4

\* The allocations of one call that are made to throw are among its first
\* MaxAllocations + 1
MaxAllocations == 24

\* The greatest level of the nodes Evolve is called on on its own
MaxEvolveLevel == 4

\* The width of size_t in the model (64 in the source): pointer values and
\* hashes range over 0 .. 2^SizeBits - 1
SizeBits == 3

\* BuildDisplayList is followed on nodes up to MaxBeyondTable levels above the
\* first level whose offset is not in mpz_pow2_table
MaxBeyondTable == 2

\* The width of int64_t in the model (64 in the source): coordinates range
\* over -2^(Int64Bits-1) .. 2^(Int64Bits-1)-1
Int64Bits == 5

\* The cells SetCellAlive is called with: a cell that dies when alone, makes
\* the blinker at the origin grow, and is already alive when set once more.
InputCells ==
    { <<0, 1>> }

\* The lists SetCellsAlive is called with: a blinker at the origin, and the
\* same blinker moved by (5, 1), which lies partly outside the level-3 start
\* region [-4, 3] (SetCellAlive expands the root) and never touches the first.
InputLists ==
    { << <<-1, 0>>, <<0, 0>>, <<1, 0>> >>,
      << <<4, 1>>, <<5, 1>>, <<6, 1>> >> }

-----------------------------------------------------------------------------
(* Program constants *)

\* QuadTree::kStartLevels
kStartLevels == 3

\* LEVEL_MAX: size of mpz_pow2_table
LEVEL_MAX == 256

\* GARBAGE_COLLECTION_GENERATIONS_COUNT is 1000 in quad_tree_config.h.  The
\* policy is modelled as written (a sweep whenever num_generations is a
\* multiple of the count); the count is scaled down so that sweeps, and Steps
\* after a sweep, happen within MaxGenerations.
GARBAGE_COLLECTION_GENERATIONS_COUNT == 2

-----------------------------------------------------------------------------
(* Nodes *)

NULL == 0

\* The store threaded through the node-level functions, with a result pointer.
Ret(h, n) == [map |-> h.map, created |-> h.created, log |-> h.log, node |-> n]

\* QuadTreeNode::QuadTreeNode(int alive): mpz_init_set_si(population, alive & 1)
LeafNode(alive) ==
    [nw |-> NULL, ne |-> NULL, sw |-> NULL, se |-> NULL, calc |-> NULL,
     alive |-> alive, level |-> 0, population |-> alive % 2]

\* `population > 0` in the inner-node constructor under ENABLE_BIG_INT:
\* population is an mpz_t, an array of one __mpz_struct, so the expression
\* compares the address of the member with the null pointer constant and not
\* the number held.  The language leaves the result of that comparison to the
\* implementation (an address above null on the usual targets); it does not
\* depend on the population.
MpzArrayGreaterThanZero(population) == mpz_above_null

\* A sum that leaves the se child out (not the program's)
PopulationSumOfThree(map, nw, ne, sw, se) ==
    map[nw].population + map[ne].population + map[sw].population

\* The three mpz_add calls of the inner-node constructor
PopulationSum(map, nw, ne, sw, se) ==
    map[nw].population + map[ne].population + map[sw].population + map[se].population

\* QuadTreeNode::QuadTreeNode(nw, ne, sw, se, level)
InnerNode(map, nw, ne, sw, se, level) ==
    [nw |-> nw, ne |-> ne, sw |-> sw, se |-> se, calc |-> NULL,
     alive |-> IF MpzArrayGreaterThanZero(PopulationSum(map, nw, ne, sw, se)) THEN 1 ELSE 0,
     level |-> level,
     population |-> PopulationSum(map, nw, ne, sw, se)]

\* QuadTreeNode::HashFunction on a node with the given fields: for a leaf 1
\* or 0 by `population > 0`, else the sum of the child pointers with nw taken
\* once and ne, sw, se taken three times each, in size_t arithmetic
HashFunction(node) ==
    IF node.level = 0
    THEN (IF MpzArrayGreaterThanZero(node.population) THEN 1 ELSE 0)
    ELSE (node.nw + 3 * node.ne + 3 * node.sw + 3 * node.se) % 2^SizeBits

\* No call of HashFunction followed yet
NoHash == [nw |-> NULL, ne |-> NULL, sw |-> NULL, se |-> NULL, hash |-> 0]

\* QuadTreeNode::EqualFunction
EqualFunction(node1, node2) ==
    IF node1.level # node2.level THEN FALSE
    ELSE IF node1.level = 0 THEN node1.alive = node2.alive
    ELSE /\ node1.nw = node2.nw
         /\ node1.ne = node2.ne
         /\ node1.sw = node2.sw
         /\ node1.se = node2.se

\* A lookup that never finds a node (not the program's: with it Canonical
\* allocates on every call)
FindNothing(map, node) == {}

\* node_map.find(node): the keys of the map EqualFunction finds equal to node
Find(map, node) == {p \in DOMAIN map : EqualFunction(map[p], node)}

\* The copy constructor: the fields the heap copy of node gets
CopyNode(node) ==
    [nw |-> node.nw, ne |-> node.ne, sw |-> node.sw, se |-> node.se, calc |-> node.calc,
     alive |-> node.alive, level |-> node.level, population |-> node.population]

\* CanonicalFound writing the fields of node over the node found (not the
\* program's: the program leaves the node found as it is)
CanonicalFoundOverwriting(h, node, found) ==
    IF found # {}
    THEN [map |-> [h.map EXCEPT ![CHOOSE p \in found : TRUE] = CopyNode(node)],
          created |-> h.created,
          log |-> h.log,
          node |-> CHOOSE p \in found : TRUE]
    ELSE [map |-> h.map @@ ((h.created + 1) :> CopyNode(node)),
          created |-> h.created + 1,
          log |-> h.log,
          node |-> h.created + 1]

\* What QuadTreeNode::Canonical(QuadTreeNode* node) does with the result of
\* node_map.find(node): on a hit the key found is returned; on a miss a heap
\* copy of node is inserted in the map, counted and returned.
CanonicalFound(h, node, found) ==
    IF found # {}
    THEN Ret(h, CHOOSE p \in found : TRUE)
    ELSE [map |-> h.map @@ ((h.created + 1) :> CopyNode(node)),
          created |-> h.created + 1,
          log |-> h.log,
          node |-> h.created + 1]

\* QuadTreeNode::Canonical(QuadTreeNode* node)
Canonical(h, node) == CanonicalFound(h, node, Find(h.map, node))

\* QuadTreeNode::Canonical(nw, ne, sw, se, level)
CanonicalNode(h, nw, ne, sw, se, level) ==
    Canonical(h, InnerNode(h.map, nw, ne, sw, se, level))

\* QuadTreeNode::Canonical(int alive)
CanonicalLeaf(h, alive) == Canonical(h, LeafNode(alive))

RECURSIVE EmptyQuadTreeNotInterned(_, _)
\* An EmptyQuadTree that allocates its inner nodes without looking them up
\* (not the program's)
EmptyQuadTreeNotInterned(h, level) ==
    IF level = 0 THEN CanonicalLeaf(h, 0)
    ELSE CHOOSE r \in {
             CanonicalFound(e, InnerNode(e.map, e.node, e.node, e.node, e.node, level), {})
         : e \in {EmptyQuadTreeNotInterned(h, level - 1)} } : TRUE

RECURSIVE EmptyQuadTree(_, _)
\* QuadTreeNode::EmptyQuadTree(level)
EmptyQuadTree(h, level) ==
    IF level = 0 THEN CanonicalLeaf(h, 0)
    ELSE CHOOSE r \in {
             CanonicalNode(e, e.node, e.node, e.node, e.node, level)
         : e \in {EmptyQuadTree(h, level - 1)} } : TRUE

\* Expand putting the old nw quadrant in the outer corner of the new one (not
\* the program's)
ExpandOffCentre(h, this) ==
    CHOOSE r \in {
    CHOOSE r \in {
    CHOOSE r \in {
    CHOOSE r \in {
    CHOOSE r \in {
        CanonicalNode(newSE, newNW.node, newNE.node, newSW.node, newSE.node,
                      h.map[this].level + 1)
    : newSE \in {CanonicalNode(newSW, h.map[this].se, e.node, e.node, e.node,
                               h.map[this].level)} } : TRUE
    : newSW \in {CanonicalNode(newNE, e.node, h.map[this].sw, e.node, e.node,
                               h.map[this].level)} } : TRUE
    : newNE \in {CanonicalNode(newNW, e.node, e.node, h.map[this].ne, e.node,
                               h.map[this].level)} } : TRUE
    : newNW \in {CanonicalNode(e, h.map[this].nw, e.node, e.node, e.node,
                               h.map[this].level)} } : TRUE
    : e \in {EmptyQuadTree(h, h.map[this].level - 1)} } : TRUE

\* QuadTreeNode::Expand
Expand(h, this) ==
    CHOOSE r \in {
    CHOOSE r \in {
    CHOOSE r \in {
    CHOOSE r \in {
    CHOOSE r \in {
        CanonicalNode(newSE, newNW.node, newNE.node, newSW.node, newSE.node,
                      h.map[this].level + 1)
    : newSE \in {CanonicalNode(newSW, h.map[this].se, e.node, e.node, e.node,
                               h.map[this].level)} } : TRUE
    : newSW \in {CanonicalNode(newNE, e.node, h.map[this].sw, e.node, e.node,
                               h.map[this].level)} } : TRUE
    : newNE \in {CanonicalNode(newNW, e.node, e.node, h.map[this].ne, e.node,
                               h.map[this].level)} } : TRUE
    : newNW \in {CanonicalNode(e, e.node, e.node, e.node, h.map[this].nw,
                               h.map[this].level)} } : TRUE
    : e \in {EmptyQuadTree(h, h.map[this].level - 1)} } : TRUE

\* this->a->b and this->a->b->c
Child2(map, this, a, b) == map[map[this][a]][b]
Child3(map, this, a, b, c) == map[map[map[this][a]][b]][c]

\* The condition of Compact without the four corner grandchildren (not the
\* program's)
OuterEmptyWithoutCorners(map, root_, empty_tree) ==
    /\ Child2(map, root_, "nw", "ne") = empty_tree
    /\ Child2(map, root_, "nw", "sw") = empty_tree
    /\ Child2(map, root_, "ne", "nw") = empty_tree
    /\ Child2(map, root_, "ne", "se") = empty_tree
    /\ Child2(map, root_, "sw", "nw") = empty_tree
    /\ Child2(map, root_, "sw", "se") = empty_tree
    /\ Child2(map, root_, "se", "ne") = empty_tree
    /\ Child2(map, root_, "se", "sw") = empty_tree

\* The condition of the if in QuadTreeNode::Compact: the 12 outer
\* grandchildren of root are the empty tree
OuterEmpty(map, root_, empty_tree) ==
    /\ Child2(map, root_, "nw", "nw") = empty_tree
    /\ Child2(map, root_, "nw", "ne") = empty_tree
    /\ Child2(map, root_, "nw", "sw") = empty_tree
    /\ Child2(map, root_, "ne", "nw") = empty_tree
    /\ Child2(map, root_, "ne", "ne") = empty_tree
    /\ Child2(map, root_, "ne", "se") = empty_tree
    /\ Child2(map, root_, "sw", "nw") = empty_tree
    /\ Child2(map, root_, "sw", "sw") = empty_tree
    /\ Child2(map, root_, "sw", "se") = empty_tree
    /\ Child2(map, root_, "se", "ne") = empty_tree
    /\ Child2(map, root_, "se", "sw") = empty_tree
    /\ Child2(map, root_, "se", "se") = empty_tree

RECURSIVE CompactLoopToLevel1(_, _, _)
\* The loop of Compact with the condition level >= 2 (not the program's)
CompactLoopToLevel1(h, root_, level) ==
    IF level >= 2
    THEN CHOOSE r \in {
             IF OuterEmpty(e.map, root_, e.node)
             THEN CHOOSE r \in {
                      CompactLoopToLevel1(c, c.node, level - 1)
                  : c \in {CanonicalNode(e, Child2(e.map, root_, "nw", "se"),
                                            Child2(e.map, root_, "ne", "sw"),
                                            Child2(e.map, root_, "sw", "ne"),
                                            Child2(e.map, root_, "se", "nw"),
                                         level - 1)} } : TRUE
             ELSE Ret(e, root_)
         : e \in {EmptyQuadTree(h, level - 2)} } : TRUE
    ELSE Ret(h, root_)

\* The loop of Compact left after its first iteration (not the program's)
CompactLoopOnce(h, root_, level) ==
    IF level >= 3
    THEN CHOOSE r \in {
             IF OuterEmpty(e.map, root_, e.node)
             THEN CanonicalNode(e, Child2(e.map, root_, "nw", "se"),
                                   Child2(e.map, root_, "ne", "sw"),
                                   Child2(e.map, root_, "sw", "ne"),
                                   Child2(e.map, root_, "se", "nw"),
                                level - 1)
             ELSE Ret(e, root_)
         : e \in {EmptyQuadTree(h, level - 2)} } : TRUE
    ELSE Ret(h, root_)

RECURSIVE CompactLoop(_, _, _)
\* The while loop of QuadTreeNode::Compact
CompactLoop(h, root_, level) ==
    IF level >= 3
    THEN CHOOSE r \in {
             IF OuterEmpty(e.map, root_, e.node)
             THEN CHOOSE r \in {
                      CompactLoop(c, c.node, level - 1)
                  : c \in {CanonicalNode(e, Child2(e.map, root_, "nw", "se"),
                                            Child2(e.map, root_, "ne", "sw"),
                                            Child2(e.map, root_, "sw", "ne"),
                                            Child2(e.map, root_, "se", "nw"),
                                         level - 1)} } : TRUE
             ELSE Ret(e, root_)
         : e \in {EmptyQuadTree(h, level - 2)} } : TRUE
    ELSE Ret(h, root_)

\* QuadTreeNode::Compact
Compact(h, this) == CompactLoop(h, this, h.map[this].level)

\* A rule under which a live cell survives on three neighbours only (not
\* the program's)
RunRuleSurviveOnThree(alive, count) == IF count = 3 THEN 1 ELSE 0

\* QuadTreeNode::RunRule
RunRule(alive, count) ==
    IF alive # 0
    THEN (IF count = 2 \/ count = 3 THEN 1 ELSE 0)
    ELSE (IF count = 3 THEN 1 ELSE 0)

\* this->a->b->alive
Alive2(map, this, a, b) == map[Child2(map, this, a, b)].alive

\* CountNW without the western neighbour (not the program's)
CountNWWithoutWest(map, this) ==
    Alive2(map, this, "nw", "nw") + Alive2(map, this, "nw", "ne") + Alive2(map, this, "ne", "nw")
    + Alive2(map, this, "ne", "sw")
    + Alive2(map, this, "sw", "nw") + Alive2(map, this, "sw", "ne") + Alive2(map, this, "se", "nw")

\* The number of live cells among the eight neighbours of the four centre
\* cells of a level-2 node (the sums EvolveLevel2 passes to RunRule)
CountNW(map, this) ==
    Alive2(map, this, "nw", "nw") + Alive2(map, this, "nw", "ne") + Alive2(map, this, "ne", "nw")
    + Alive2(map, this, "nw", "sw") + Alive2(map, this, "ne", "sw")
    + Alive2(map, this, "sw", "nw") + Alive2(map, this, "sw", "ne") + Alive2(map, this, "se", "nw")

CountNE(map, this) ==
    Alive2(map, this, "nw", "ne") + Alive2(map, this, "ne", "nw") + Alive2(map, this, "ne", "ne")
    + Alive2(map, this, "nw", "se") + Alive2(map, this, "ne", "se")
    + Alive2(map, this, "sw", "ne") + Alive2(map, this, "se", "nw") + Alive2(map, this, "se", "ne")

\* CountSW without the eastern neighbour (not the program's)
CountSWWithoutEast(map, this) ==
    Alive2(map, this, "nw", "sw") + Alive2(map, this, "nw", "se") + Alive2(map, this, "ne", "sw")
    + Alive2(map, this, "sw", "nw")
    + Alive2(map, this, "sw", "sw") + Alive2(map, this, "sw", "se") + Alive2(map, this, "se", "sw")

CountSW(map, this) ==
    Alive2(map, this, "nw", "sw") + Alive2(map, this, "nw", "se") + Alive2(map, this, "ne", "sw")
    + Alive2(map, this, "sw", "nw") + Alive2(map, this, "se", "nw")
    + Alive2(map, this, "sw", "sw") + Alive2(map, this, "sw", "se") + Alive2(map, this, "se", "sw")

\* CountSE without the south-eastern neighbour (not the program's)
CountSEWithoutSouthEast(map, this) ==
    Alive2(map, this, "nw", "se") + Alive2(map, this, "ne", "sw") + Alive2(map, this, "ne", "se")
    + Alive2(map, this, "sw", "ne") + Alive2(map, this, "se", "ne")
    + Alive2(map, this, "sw", "se") + Alive2(map, this, "se", "sw")

CountSE(map, this) ==
    Alive2(map, this, "nw", "se") + Alive2(map, this, "ne", "sw") + Alive2(map, this, "ne", "se")
    + Alive2(map, this, "sw", "ne") + Alive2(map, this, "se", "ne")
    + Alive2(map, this, "sw", "se") + Alive2(map, this, "se", "sw") + Alive2(map, this, "se", "se")

\* QuadTreeNode::EvolveLevel2
EvolveLevel2(h, this) ==
    CHOOSE r \in {
    CHOOSE r \in {
    CHOOSE r \in {
    CHOOSE r \in {
        CanonicalNode(newSE, newNW.node, newNE.node, newSW.node, newSE.node,
                      h.map[this].level - 1)
    : newSE \in {CanonicalLeaf(newSW, RunRule(Alive2(h.map, this, "se", "nw"),
                                              CountSE(h.map, this)))} } : TRUE
    : newSW \in {CanonicalLeaf(newNE, RunRule(Alive2(h.map, this, "sw", "ne"),
                                              CountSW(h.map, this)))} } : TRUE
    : newNE \in {CanonicalLeaf(newNW, RunRule(Alive2(h.map, this, "ne", "sw"),
                                              CountNE(h.map, this)))} } : TRUE
    : newNW \in {CanonicalLeaf(h, RunRule(Alive2(h.map, this, "nw", "se"),
                                          CountNW(h.map, this)))} } : TRUE

\* QuadTreeNode::GetInnerNWNode
GetInnerNWNode(h, this) ==
    CanonicalNode(h, Child3(h.map, this, "nw", "nw", "se"), Child3(h.map, this, "nw", "ne", "sw"),
                     Child3(h.map, this, "nw", "sw", "ne"), Child3(h.map, this, "nw", "se", "nw"),
                     h.map[this].level - 2)

\* GetInnerNNode with its two eastern parts exchanged (not the program's)
GetInnerNNodeExchanged(h, this) ==
    CanonicalNode(h, Child3(h.map, this, "nw", "ne", "se"), Child3(h.map, this, "ne", "sw", "nw"),
                     Child3(h.map, this, "nw", "se", "ne"), Child3(h.map, this, "ne", "nw", "sw"),
                     h.map[this].level - 2)

\* QuadTreeNode::GetInnerNNode
GetInnerNNode(h, this) ==
    CanonicalNode(h, Child3(h.map, this, "nw", "ne", "se"), Child3(h.map, this, "ne", "nw", "sw"),
                     Child3(h.map, this, "nw", "se", "ne"), Child3(h.map, this, "ne", "sw", "nw"),
                     h.map[this].level - 2)

\* QuadTreeNode::GetInnerNENode
GetInnerNENode(h, this) ==
    CanonicalNode(h, Child3(h.map, this, "ne", "nw", "se"), Child3(h.map, this, "ne", "ne", "sw"),
                     Child3(h.map, this, "ne", "sw", "ne"), Child3(h.map, this, "ne", "se", "nw"),
                     h.map[this].level - 2)

\* QuadTreeNode::GetInnerWNode
GetInnerWNode(h, this) ==
    CanonicalNode(h, Child3(h.map, this, "nw", "sw", "se"), Child3(h.map, this, "nw", "se", "sw"),
                     Child3(h.map, this, "sw", "nw", "ne"), Child3(h.map, this, "sw", "ne", "nw"),
                     h.map[this].level - 2)

\* GetInnerCNode giving the node the level of the children of this (not the
\* program's, which gives it the level of the grandchildren)
GetInnerCNodeWrongLevel(h, this) ==
    CanonicalNode(h, Child3(h.map, this, "nw", "se", "se"), Child3(h.map, this, "ne", "sw", "sw"),
                     Child3(h.map, this, "sw", "ne", "ne"), Child3(h.map, this, "se", "nw", "nw"),
                     h.map[this].level - 1)

\* QuadTreeNode::GetInnerCNode
GetInnerCNode(h, this) ==
    CanonicalNode(h, Child3(h.map, this, "nw", "se", "se"), Child3(h.map, this, "ne", "sw", "sw"),
                     Child3(h.map, this, "sw", "ne", "ne"), Child3(h.map, this, "se", "nw", "nw"),
                     h.map[this].level - 2)

\* QuadTreeNode::GetInnerENode
GetInnerENode(h, this) ==
    CanonicalNode(h, Child3(h.map, this, "ne", "sw", "se"), Child3(h.map, this, "ne", "se", "sw"),
                     Child3(h.map, this, "se", "nw", "ne"), Child3(h.map, this, "se", "ne", "nw"),
                     h.map[this].level - 2)

\* QuadTreeNode::GetInnerSWNode
GetInnerSWNode(h, this) ==
    CanonicalNode(h, Child3(h.map, this, "sw", "nw", "se"), Child3(h.map, this, "sw", "ne", "sw"),
                     Child3(h.map, this, "sw", "sw", "ne"), Child3(h.map, this, "sw", "se", "nw"),
                     h.map[this].level - 2)

\* QuadTreeNode::GetInnerSNode
GetInnerSNode(h, this) ==
    CanonicalNode(h, Child3(h.map, this, "sw", "ne", "se"), Child3(h.map, this, "se", "nw", "sw"),
                     Child3(h.map, this, "sw", "se", "ne"), Child3(h.map, this, "se", "sw", "nw"),
                     h.map[this].level - 2)

\* QuadTreeNode::GetInnerSENode
GetInnerSENode(h, this) ==
    CanonicalNode(h, Child3(h.map, this, "se", "nw", "se"), Child3(h.map, this, "se", "ne", "sw"),
                     Child3(h.map, this, "se", "sw", "ne"), Child3(h.map, this, "se", "se", "nw"),
                     h.map[this].level - 2)

RECURSIVE Evolve(_, _)
RECURSIVE EvolveLevelN(_, _)

\* Evolve without the memo: calc is neither read nor written (not the
\* program's)
EvolveNoMemo(h, this) ==
    CHOOSE r \in {
        [map |-> c.map, created |-> c.created, log |-> c.log @@ (this :> c.node),
         node |-> c.node]
    : c \in {CASE h.map[this].population = 0 -> Ret(h, h.map[this].nw)
               [] h.map[this].level = 2 -> EvolveLevel2(h, this)
               [] OTHER -> EvolveLevelN(h, this)} } : TRUE

\* Evolve returning the empty node itself instead of its nw child (not the
\* program's)
EvolveEmptyReturnsThis(h, this) ==
    IF h.map[this].calc = NULL
    THEN CHOOSE r \in {
             [map |-> [c.map EXCEPT ![this].calc = c.node],
              created |-> c.created,
              log |-> c.log @@ (this :> c.node),
              node |-> c.node]
         : c \in {CASE h.map[this].population = 0 -> Ret(h, this)
                    [] h.map[this].level = 2 -> EvolveLevel2(h, this)
                    [] OTHER -> EvolveLevelN(h, this)} } : TRUE
    ELSE [map |-> h.map, created |-> h.created,
          log |-> h.log @@ (this :> h.map[this].calc), node |-> h.map[this].calc]

\* QuadTreeNode::Evolve.  Every call is recorded in log (the first result
\* recorded for a node is kept), which the program does not have; with the
\* write of calc, log records at -this the value num_nodes_created has then.
Evolve(h, this) ==
    IF h.map[this].calc = NULL
    THEN CHOOSE r \in {
             [map |-> [c.map EXCEPT ![this].calc = c.node],
              created |-> c.created,
              log |-> c.log @@ (this :> c.node) @@ ((-this) :> c.created),
              node |-> c.node]
         : c \in {CASE h.map[this].population = 0 -> Ret(h, h.map[this].nw)
                    [] h.map[this].level = 2 -> EvolveLevel2(h, this)
                    [] OTHER -> EvolveLevelN(h, this)} } : TRUE
    ELSE [map |-> h.map, created |-> h.created,
          log |-> h.log @@ (this :> h.map[this].calc), node |-> h.map[this].calc]

\* p.node->Evolve() in the store p
EvolveNode(p) == Evolve(p, p.node)

\* The nine GetInner*Node calls EvolveLevelN starts with: the store after
\* them, the nodes n00 .. n22 they returned, and n00->level + 1
InnerNodes(h, this) ==
    CHOOSE r \in {
    CHOOSE r \in {
    CHOOSE r \in {
    CHOOSE r \in {
    CHOOSE r \in {
    CHOOSE r \in {
    CHOOSE r \in {
    CHOOSE r \in {
    CHOOSE r \in {
        [map |-> n22.map, created |-> n22.created, log |-> n22.log,
         n00 |-> n00.node, n01 |-> n01.node, n02 |-> n02.node,
         n10 |-> n10.node, n11 |-> n11.node, n12 |-> n12.node,
         n20 |-> n20.node, n21 |-> n21.node, n22 |-> n22.node,
         level |-> n22.map[n00.node].level + 1]
    : n22 \in {GetInnerSENode(n21, this)} } : TRUE
    : n21 \in {GetInnerSNode(n20, this)} } : TRUE
    : n20 \in {GetInnerSWNode(n12, this)} } : TRUE
    : n12 \in {GetInnerENode(n11, this)} } : TRUE
    : n11 \in {GetInnerCNode(n10, this)} } : TRUE
    : n10 \in {GetInnerWNode(n02, this)} } : TRUE
    : n02 \in {GetInnerNENode(n01, this)} } : TRUE
    : n01 \in {GetInnerNNode(n00, this)} } : TRUE
    : n00 \in {GetInnerNWNode(h, this)} } : TRUE

\* QuadTreeNode::EvolveLevelN
EvolveLevelN(h, this) ==
    CHOOSE r \in {
    CHOOSE r \in {
    CHOOSE r \in {
    CHOOSE r \in {
    CHOOSE r \in {
        CanonicalNode(newSE, newNW.node, newNE.node, newSW.node, newSE.node,
                      newSE.map[newNW.node].level + 1)
    : newSE \in {EvolveNode(CanonicalNode(newSW, i.n11, i.n12, i.n21, i.n22, i.level))} } : TRUE
    : newSW \in {EvolveNode(CanonicalNode(newNE, i.n10, i.n11, i.n20, i.n21, i.level))} } : TRUE
    : newNE \in {EvolveNode(CanonicalNode(newNW, i.n01, i.n02, i.n11, i.n12, i.level))} } : TRUE
    : newNW \in {EvolveNode(CanonicalNode(i, i.n00, i.n01, i.n10, i.n11, i.level))} } : TRUE
    : i \in {InnerNodes(h, this)} } : TRUE

-----------------------------------------------------------------------------
(* Cell insertion.  x, y, offset, min and max are int64_t in the source.  The  *)
(* model keeps the two's-complement arithmetic and scales the width down to   *)
(* Int64Bits bits, so that the levels at which the arithmetic reaches the     *)
(* ends of the range can be explored: the root that covers the whole range    *)
(* has level Int64Bits (64 in the source).                                    *)

\* INT64_MIN and INT64_MAX
Int64Min == -(2^(Int64Bits - 1))
Int64Max == 2^(Int64Bits - 1) - 1

\* The value an int64_t holds after arithmetic that wraps around
Wrap(v) == ((v - Int64Min) % 2^Int64Bits) + Int64Min

\* INT64_C(1) << shift.  Up to shift = Int64Bits - 2 the result is 2^shift;
\* for shift = Int64Bits - 1 the bit lands in the sign position (INT64_MIN);
\* a larger shift count is undefined, and the value here is that of a
\* machine that takes the count modulo the width.
Shl1(shift) == Wrap(2^(shift % Int64Bits))

\* offset in QuadTreeNode::SetCellAlive
SetCellOffset(level) == IF level = 1 THEN 0 ELSE Shl1(level - 2)

RECURSIVE NodeSetCellAlive(_, _, _, _)
\* QuadTreeNode::SetCellAlive(x, y)
NodeSetCellAlive(h, this, x, y) ==
    IF h.map[this].level = 0 THEN CanonicalLeaf(h, 1)
    ELSE IF x < 0
    THEN IF y < 0
         THEN CHOOSE r \in {
                  CanonicalNode(c, c.node, h.map[this].ne, h.map[this].sw, h.map[this].se,
                                h.map[this].level)
              : c \in {NodeSetCellAlive(h, h.map[this].nw,
                                        x + SetCellOffset(h.map[this].level),
                                        y + SetCellOffset(h.map[this].level))} } : TRUE
         ELSE CHOOSE r \in {
                  CanonicalNode(c, h.map[this].nw, h.map[this].ne, c.node, h.map[this].se,
                                h.map[this].level)
              : c \in {NodeSetCellAlive(h, h.map[this].sw,
                                        x + SetCellOffset(h.map[this].level),
                                        y - SetCellOffset(h.map[this].level))} } : TRUE
    ELSE IF y < 0
         THEN CHOOSE r \in {
                  CanonicalNode(c, h.map[this].nw, c.node, h.map[this].sw, h.map[this].se,
                                h.map[this].level)
              : c \in {NodeSetCellAlive(h, h.map[this].ne,
                                        x - SetCellOffset(h.map[this].level),
                                        y + SetCellOffset(h.map[this].level))} } : TRUE
         ELSE CHOOSE r \in {
                  CanonicalNode(c, h.map[this].nw, h.map[this].ne, h.map[this].sw, c.node,
                                h.map[this].level)
              : c \in {NodeSetCellAlive(h, h.map[this].se,
                                        x - SetCellOffset(h.map[this].level),
                                        y - SetCellOffset(h.map[this].level))} } : TRUE

\* min and max in the loop of QuadTree::SetCellAlive for a root of the given
\* level, as wrapping arithmetic yields them.  From level Int64Bits on,
\* -(1 << shift) and (1 << shift) - 1 overflow (see OverflowOutcomes).
BoundsMin(level) == IF level = 0 THEN 0 ELSE Wrap(-Shl1(level - 1))
BoundsMax(level) == IF level = 0 THEN 0 ELSE Wrap(Shl1(level - 1) - 1)

\* What a call of QuadTree::SetCellAlive that evaluates min and max for a root
\* of the given level can do.  Below level Int64Bits the arithmetic is
\* defined.  From level Int64Bits on it overflows a signed integer, which is
\* undefined: a build in which the arithmetic wraps goes on with BoundsMin and
\* BoundsMax; a build that traps on overflow, or that compares as if the
\* values had not wrapped (the test fails at every level), never returns from
\* the call.
OverflowOutcomes(level) ==
    IF level >= Int64Bits THEN {"wraps", "no return"} ELSE {"defined"}

\* The test `x >= min && x <= max && y >= min && y <= max` of
\* QuadTree::SetCellAlive for a root of the given level
InBounds(level, x, y) ==
    /\ x >= BoundsMin(level)
    /\ x <= BoundsMax(level)
    /\ y >= BoundsMin(level)
    /\ y <= BoundsMax(level)

RECURSIVE ExpandToFit(_, _, _, _)
\* The while (true) loop of QuadTree::SetCellAlive
ExpandToFit(h, root_, x, y) ==
    IF InBounds(h.map[root_].level, x, y)
    THEN Ret(h, root_)
    ELSE CHOOSE r \in {
             ExpandToFit(e, e.node, x, y)
         : e \in {Expand(h, root_)} } : TRUE

-----------------------------------------------------------------------------
(* Display list *)

\* The offset BuildDisplayList computes for a node of level > 1: the table
\* entry mpz_pow2_table[level - 2] = 2^(level - 2) (InitializePow2Table), or,
\* beyond the table, the loop that doubles offset starting from 0.
DisplayOffset(level) ==
    IF level - 2 < LEVEL_MAX THEN 2^(level - 2) ELSE 0

\* An mpz_class value that is 0 or a power of two, mantissa * 2^exp with
\* mantissa 0 or 1, so that 2^(LEVEL_MAX - 1) and what lies beyond can be written
Mpz(mantissa, exp) == [mantissa |-> mantissa, exp |-> exp]

\* v * 2 on such a value: twice 0 is 0
MpzTimes2(v) == IF v.mantissa = 0 THEN Mpz(0, 0) ELSE Mpz(v.mantissa, v.exp + 1)

\* QuadTreeNode::mpz_pow2_table after InitializePow2Table: entry 0 is 1 and
\* entry i is entry i-1 times 2
mpz_pow2_table == [i \in 0 .. LEVEL_MAX - 1 |-> Mpz(1, i)]

RECURSIVE DoubleTimes(_, _, _)
\* for (; i < max; ++i) offset = offset * 2;
DoubleTimes(offset, i, max) ==
    IF i < max THEN DoubleTimes(MpzTimes2(offset), i + 1, max) ELSE offset

\* The offset of BuildDisplayList as the multi-precision value it is:
\* offset = 0, replaced for level > 1 by the table entry when level - 2 is
\* below LEVEL_MAX and else doubled (level - 2) - (LEVEL_MAX - 1) times
MpzOffset(level) ==
    IF level > 1
    THEN IF level - 2 < LEVEL_MAX
         THEN mpz_pow2_table[level - 2]
         ELSE DoubleTimes(Mpz(0, 0), 0, (level - 2) - (LEVEL_MAX - 1))
    ELSE Mpz(0, 0)

\* The signs with which BuildDisplayList applies offset to origin_x and
\* origin_y for each child of a node of level > 1
ChildShift ==
    [nw |-> <<-1, -1>>, ne |-> <<1, -1>>, sw |-> <<-1, 1>>, se |-> <<1, 1>>]

\* No call of BuildDisplayList followed yet
NoDisplay == [level |-> 0, offset |-> Mpz(0, 0), shift |-> ChildShift]

\* A west/north offset that is 0 at level 1, as the east/south one (not the
\* program's)
DisplayWestAsEast(level) == IF level = 1 THEN 0 ELSE DisplayOffset(level)

\* An east/south offset that is 1 at level 1, as the west/north one (not the
\* program's)
DisplayEastAsWest(level) == IF level = 1 THEN 1 ELSE DisplayOffset(level)

\* What BuildDisplayList subtracts from the origin for the west and north
\* children, and adds for the east and south children, at the given level
DisplayWest(level) == IF level = 1 THEN 1 ELSE DisplayOffset(level)
DisplayEast(level) == IF level = 1 THEN 0 ELSE DisplayOffset(level)

RECURSIVE BuildDisplayList(_, _, _, _)
\* QuadTreeNode::BuildDisplayList(origin_x, origin_y, list): the pairs pushed
\* on list, in order
BuildDisplayList(map, this, origin_x, origin_y) ==
    IF map[this].level = 0
    THEN (IF map[this].alive # 0 THEN << <<origin_x, origin_y>> >> ELSE << >>)
    ELSE (IF map[map[this].nw].population # 0
          THEN BuildDisplayList(map, map[this].nw,
                                origin_x - DisplayWest(map[this].level),
                                origin_y - DisplayWest(map[this].level))
          ELSE << >>)
         \o
         (IF map[map[this].ne].population # 0
          THEN BuildDisplayList(map, map[this].ne,
                                origin_x + DisplayEast(map[this].level),
                                origin_y - DisplayWest(map[this].level))
          ELSE << >>)
         \o
         (IF map[map[this].sw].population # 0
          THEN BuildDisplayList(map, map[this].sw,
                                origin_x - DisplayWest(map[this].level),
                                origin_y + DisplayEast(map[this].level))
          ELSE << >>)
         \o
         (IF map[map[this].se].population # 0
          THEN BuildDisplayList(map, map[this].se,
                                origin_x + DisplayEast(map[this].level),
                                origin_y + DisplayEast(map[this].level))
          ELSE << >>)

\* The set of cells of a display list
Range(seq) == {seq[i] : i \in DOMAIN seq}

-----------------------------------------------------------------------------
(* Garbage collection *)

RECURSIVE CollectGarbageHelperSkippingCalc(_, _, _)
\* A mark phase that does not follow calc (not the program's)
CollectGarbageHelperSkippingCalc(map, nodesInUse, curr) ==
    IF curr = NULL \/ curr \in nodesInUse THEN nodesInUse
    ELSE CHOOSE r \in {
         CHOOSE r \in {
         CHOOSE r \in {
             CollectGarbageHelperSkippingCalc(map, u4, map[curr].se)
         : u4 \in {CollectGarbageHelperSkippingCalc(map, u3, map[curr].sw)} } : TRUE
         : u3 \in {CollectGarbageHelperSkippingCalc(map, u2, map[curr].ne)} } : TRUE
         : u2 \in {CollectGarbageHelperSkippingCalc(map, nodesInUse \cup {curr},
                                                     map[curr].nw)} } : TRUE

RECURSIVE CollectGarbageHelper(_, _, _)
\* QuadTree::CollectGarbageHelper(nodesInUse, curr): nodesInUse afterwards
CollectGarbageHelper(map, nodesInUse, curr) ==
    IF curr = NULL \/ curr \in nodesInUse THEN nodesInUse
    ELSE CHOOSE r \in {
         CHOOSE r \in {
         CHOOSE r \in {
         CHOOSE r \in {
             CollectGarbageHelper(map, u4, map[curr].se)
         : u4 \in {CollectGarbageHelper(map, u3, map[curr].sw)} } : TRUE
         : u3 \in {CollectGarbageHelper(map, u2, map[curr].ne)} } : TRUE
         : u2 \in {CollectGarbageHelper(map, u1, map[curr].nw)} } : TRUE
         : u1 \in {CollectGarbageHelper(map, nodesInUse \cup {curr}, map[curr].calc)} } : TRUE

\* A sweep that erases nothing (not the program's)
SweepNothing(map, nodesInUse) == map

\* The sweep of QuadTree::CollectGarbage: every node of the map that is not in
\* nodesInUse is erased and deleted
Sweep(map, nodesInUse) == [p \in DOMAIN map \cap nodesInUse |-> map[p]]

\* QuadTree::CollectGarbage: the store afterwards and the value returned
CollectGarbage(map, root_, generations) ==
    IF generations % GARBAGE_COLLECTION_GENERATIONS_COUNT = 0
    THEN [map |-> Sweep(map, CollectGarbageHelper(map, {}, root_)), collected |-> TRUE]
    ELSE [map |-> map, collected |-> FALSE]

-----------------------------------------------------------------------------
(* Conway's rule on the unbounded grid (the reference the tree is compared to) *)

Neighbours(c) ==
    {<<c[1] + dx, c[2] + dy>> : dx \in {-1, 0, 1}, dy \in {-1, 0, 1}} \ {c}

LiveNeighbours(S, c) == Cardinality(Neighbours(c) \cap S)

ConwayNext(S) ==
    {c \in S \cup UNION {Neighbours(d) : d \in S} :
        IF c \in S THEN LiveNeighbours(S, c) \in {2, 3} ELSE LiveNeighbours(S, c) = 3}

-----------------------------------------------------------------------------
(* The universe: QuadTree *)

\* The store the node-level functions start from in an operation
Store == [map |-> node_map, created |-> num_nodes_created, log |-> << >>]

\* What a caller sees of the universe with the given root: the cells of
\* BuildDisplayList(0, 0), the population of the root and the level of the root
Shown(map, root_) ==
    [cells |-> Range(BuildDisplayList(map, root_, 0, 0)),
     population |-> map[root_].population,
     level |-> map[root_].level]

\* QuadTree::QuadTree(): root = EmptyQuadTree(kStartLevels) on the empty store
Init ==
    /\ mpz_above_null \in BOOLEAN
    /\ \E e \in {EmptyQuadTree([map |-> << >>, created |-> 0, log |-> << >>], kStartLevels)} :
       /\ node_map = e.map
       /\ num_nodes_created = e.created
       /\ root = e.node
       /\ num_generations = 0
       /\ cells = {}
       /\ inserts = 0
       /\ evolved = << >>
       /\ swept = FALSE
       /\ last_call = "QuadTree"
       /\ steps_evolved = 0
       /\ display = NoDisplay
       /\ hashed = NoHash
       /\ unswept = [map |-> node_map, created |-> num_nodes_created, node |-> root,
                   generations |-> 0]
       /\ other = [node |-> NULL, state |-> "none"]
       /\ history = << Shown(e.map, e.node) >>

\* The body of QuadTree::SetCellAlive(x, y): the store and the root afterwards
SetCellAliveBody(h, root_, x, y) ==
    CHOOSE r \in {
        NodeSetCellAlive(f, f.node, x, y)
    : f \in {ExpandToFit(h, root_, x, y)} } : TRUE

\* The last call returned to its caller: it neither ran on for ever nor left
\* with std::bad_alloc
Returned ==
    last_call \notin {"SetCellAliveNoReturn", "SetCellsAliveNoReturn",
                      "SetCellAliveThrew", "StepThrew"}

\* QuadTree::SetCellAlive(x, y)
SetCellAlive(x, y) ==
    /\ Returned
    /\ inserts < MaxInserts
    /\ \E r \in {SetCellAliveBody(Store, root, x, y)} :
       \E outcome \in OverflowOutcomes(r.map[r.node].level) :
          IF outcome = "no return"
          THEN /\ last_call' = "SetCellAliveNoReturn"
               /\ UNCHANGED <<node_map, num_nodes_created, root, cells, inserts, swept,
                              history>>
          ELSE /\ node_map' = r.map
               /\ num_nodes_created' = r.created
               /\ root' = r.node
               /\ cells' = cells \cup {<<x, y>>}
               /\ inserts' = inserts + 1
               /\ swept' = FALSE
               /\ last_call' = "SetCellAlive"
               /\ history' = << Shown(r.map, r.node) >>
    /\ UNCHANGED <<display, other, unswept, hashed, num_generations, mpz_above_null, evolved, steps_evolved>>

RECURSIVE SetCellsAliveBody(_, _, _, _)
\* The loop of QuadTree::SetCellsAlive from element i of input on
SetCellsAliveBody(h, root_, input, i) ==
    IF i > Len(input) THEN Ret(h, root_)
    ELSE CHOOSE r \in {
             SetCellsAliveBody(s, s.node, input, i + 1)
         : s \in {SetCellAliveBody(h, root_, input[i][1], input[i][2])} } : TRUE

\* QuadTree::SetCellsAlive(input)
SetCellsAlive(input) ==
    /\ Returned
    /\ inserts < MaxInserts
    /\ \E r \in {SetCellsAliveBody(Store, root, input, 1)} :
       \E outcome \in OverflowOutcomes(r.map[r.node].level) :
          IF outcome = "no return"
          THEN /\ last_call' = "SetCellsAliveNoReturn"
               /\ UNCHANGED <<node_map, num_nodes_created, root, cells, inserts, swept,
                              history>>
          ELSE /\ node_map' = r.map
               /\ num_nodes_created' = r.created
               /\ root' = r.node
               /\ cells' = cells \cup Range(input)
               /\ inserts' = inserts + 1
               /\ swept' = FALSE
               /\ last_call' = "SetCellsAlive"
               /\ history' = << Shown(r.map, r.node) >>
    /\ UNCHANGED <<display, other, unswept, hashed, num_generations, mpz_above_null, evolved, steps_evolved>>

\* An expansion loop that only brings the root to level 3 (not the program's)
NeedsExpandBelowLevel3(map, root_) == map[root_].level < 3

\* An expansion loop that only looks at the northern quadrants' borders
\* (not the program's)
NeedsExpandNorthOnly(map, root_) ==
    \/ map[root_].level < 3
    \/ map[map[root_].nw].population # map[Child3(map, root_, "nw", "se", "se")].population
    \/ map[map[root_].ne].population # map[Child3(map, root_, "ne", "sw", "sw")].population

\* An expansion loop that compares each quadrant with its innermost
\* descendant one level further down (not the program's)
NeedsExpandDeeper(map, root_) ==
    \/ map[root_].level < 4
    \/ map[map[root_].nw].population # map[map[Child3(map, root_, "nw", "se", "se")].se].population
    \/ map[map[root_].ne].population # map[map[Child3(map, root_, "ne", "sw", "sw")].sw].population
    \/ map[map[root_].sw].population # map[map[Child3(map, root_, "sw", "ne", "ne")].ne].population
    \/ map[map[root_].se].population # map[map[Child3(map, root_, "se", "nw", "nw")].nw].population

\* An expansion loop in the structural form: it goes on while one of the 12
\* outer grandchildren of the root has a live cell (not the program's)
NeedsExpandStructural(map, root_) ==
    \/ map[root_].level < 3
    \/ \E pair \in { <<"nw", "nw">>, <<"nw", "ne">>, <<"nw", "sw">>,
                      <<"ne", "nw">>, <<"ne", "ne">>, <<"ne", "se">>,
                      <<"sw", "nw">>, <<"sw", "sw">>, <<"sw", "se">>,
                      <<"se", "ne">>, <<"se", "sw">>, <<"se", "se">> } :
           map[Child2(map, root_, pair[1], pair[2])].population # 0

\* The condition of the expansion loop of QuadTree::Step
NeedsExpand(map, root_) ==
    \/ map[root_].level < 3
    \/ map[map[root_].nw].population # map[Child3(map, root_, "nw", "se", "se")].population
    \/ map[map[root_].ne].population # map[Child3(map, root_, "ne", "sw", "sw")].population
    \/ map[map[root_].sw].population # map[Child3(map, root_, "sw", "ne", "ne")].population
    \/ map[map[root_].se].population # map[Child3(map, root_, "se", "nw", "nw")].population

\* The expansion loop left out: Step evolves the root as it is (not the
\* program's)
ExpandLoopSkipped(h, root_) == Ret(h, root_)

RECURSIVE ExpandLoop(_, _)
\* The expansion loop of QuadTree::Step
ExpandLoop(h, root_) ==
    IF NeedsExpand(h.map, root_)
    THEN CHOOSE r \in {
             ExpandLoop(e, e.node)
         : e \in {Expand(h, root_)} } : TRUE
    ELSE Ret(h, root_)

\* StepBody without ++num_generations (not the program's)
StepBodyNotCounting(h, root_, generations) ==
    CHOOSE r \in {
    CHOOSE r \in {
    CHOOSE r \in {
    CHOOSE r \in {
        [map |-> g.map, created |-> c.created, log |-> c.log, node |-> c.node,
         generations |-> generations, collected |-> g.collected]
    : g \in {CollectGarbage(c.map, c.node, generations)} } : TRUE
    : c \in {Compact(e, e.node)} } : TRUE
    : e \in {Evolve(x, x.node)} } : TRUE
    : x \in {ExpandLoop(h, root_)} } : TRUE

\* StepBody that decides on the sweep before ++num_generations (not the
\* program's)
StepBodySweepingBeforeCount(h, root_, generations) ==
    CHOOSE r \in {
    CHOOSE r \in {
    CHOOSE r \in {
    CHOOSE r \in {
        [map |-> g.map, created |-> c.created, log |-> c.log, node |-> c.node,
         generations |-> generations + 1, collected |-> g.collected]
    : g \in {CollectGarbage(c.map, c.node, generations)} } : TRUE
    : c \in {Compact(e, e.node)} } : TRUE
    : e \in {Evolve(x, x.node)} } : TRUE
    : x \in {ExpandLoop(h, root_)} } : TRUE

\* QuadTree::Step() from the expansion loop on (the root has a live cell):
\* the store, the root, the generation counter and whether a sweep was done
StepBody(h, root_, generations) ==
    CHOOSE r \in {
    CHOOSE r \in {
    CHOOSE r \in {
    CHOOSE r \in {
        [map |-> g.map, created |-> c.created, log |-> c.log, node |-> c.node,
         generations |-> generations + 1, collected |-> g.collected]
    : g \in {CollectGarbage(c.map, c.node, generations + 1)} } : TRUE
    : c \in {Compact(e, e.node)} } : TRUE
    : e \in {Evolve(x, x.node)} } : TRUE
    : x \in {ExpandLoop(h, root_)} } : TRUE

\* The ghost evolved after an operation: the first result recorded for every
\* node Evolve was called on, for the nodes still in the store
Evolved(old, log, map) ==
    [p \in (DOMAIN old \cup DOMAIN log) \cap DOMAIN map |-> (old @@ log)[p]]

\* 1 when the root has a live cell at the call of Step, else 0
PopulatedAtCall == IF root # NULL /\ node_map[root].population # 0 THEN 1 ELSE 0

\* QuadTree::Step()
Step ==
    /\ Returned
    /\ num_generations < MaxGenerations
    /\ IF root = NULL \/ node_map[root].population = 0
       THEN /\ swept' = FALSE
            /\ last_call' = "StepReturnedEarly"
            /\ UNCHANGED <<node_map, num_nodes_created, root, num_generations, cells,
                           evolved, history>>
       ELSE \E r \in {StepBody(Store, root, num_generations)} :
               /\ root' = r.node
               /\ num_generations' = r.generations
               /\ node_map' = r.map
               /\ num_nodes_created' = r.created
               /\ evolved' = Evolved(evolved, r.log, r.map)
               /\ swept' = r.collected
               /\ cells' = ConwayNext(cells)
               /\ last_call' = "StepEvolved"
               /\ history' = Append(history, Shown(r.map, r.node))
    /\ steps_evolved' = steps_evolved + PopulatedAtCall
    /\ UNCHANGED <<display, other, unswept, hashed, mpz_above_null, inserts>>

Next ==
    \/ \E c \in InputCells : SetCellAlive(c[1], c[2])
    \/ \E input \in InputLists : SetCellsAlive(input)
    \/ Step

Spec == Init /\ [][Next]_vars

\* The universe driven with cells at the ends of the int64_t range: the
\* corner (INT64_MAX, INT64_MAX) as a single cell, a list that sets the origin
\* and the two other corners and repeats a coordinate, and the blinker of
\* addOscillator (main.cpp), whose row is one below INT64_MAX.
EdgeInputCells ==
    { <<Int64Max, Int64Max>> }

EdgeInputLists ==
    { << <<0, 0>>, <<Int64Max, Int64Min>>, <<Int64Min, Int64Max>>, <<0, 0>> >>,
      << <<0, Int64Max - 1>>, <<-1, Int64Max - 1>>, <<1, Int64Max - 1>> >> }

EdgeNext ==
    \/ \E c \in EdgeInputCells : SetCellAlive(c[1], c[2])
    \/ \E input \in EdgeInputLists : SetCellsAlive(input)
    \/ Step

EdgeSpec == Init /\ [][EdgeNext]_vars

\* The universe driven with the patterns of the end-to-end scenarios: the
\* blinker {(0,0), (1,0), (2,0)} and the glider of addGlider (main.cpp).
PatternLists ==
    { << <<0, 0>>, <<1, 0>>, <<2, 0>> >>,
      << <<1, 0>>, <<2, 1>>, <<0, 2>>, <<1, 2>>, <<2, 2>> >> }

PatternNext ==
    \/ \E input \in PatternLists : SetCellsAlive(input)
    \/ Step

PatternSpec == Init /\ [][PatternNext]_vars

\* The universe before the first Step, cells set one at a time: cells inside
\* the start region [-4, 3] of the level-3 root and cells outside it, for
\* which SetCellAlive expands the root before or after other cells were set.
InsertCells ==
    { <<0, 0>>, <<-1, -1>>, <<3, 3>>, <<-4, -4>>,
      <<4, 0>>, <<-5, 2>>, <<7, 7>>, <<-8, -8>> }

InsertNext == \E c \in InsertCells : SetCellAlive(c[1], c[2])

InsertSpec == Init /\ [][InsertNext]_vars

\* The universe when the allocation `new QuadTreeNode(*node)` of
\* QuadTreeNode::Canonical throws std::bad_alloc.  Nothing in the program
\* catches it: the exception leaves Step or SetCellAlive at the statement
\* in which it was thrown, with the assignments to root made so far.  The
\* allocation that throws is the one that would have made num_nodes_created
\* exceed limit.

\* Whether the statement whose result is r ran into the allocation that throws
Throws(r, limit) == r.created > limit

\* The store r of the statement that threw, at the throw: the nodes allocated
\* so far, each calc written so far
StoreAtThrow(r, limit) ==
    [p \in {q \in DOMAIN r.map : q <= limit} |->
        IF (-p) \in DOMAIN r.log /\ r.log[-p] > limit
        THEN [r.map[p] EXCEPT !.calc = NULL]
        ELSE r.map[p]]

\* The part of log whose calc was written before the throw
LogAtThrow(log, limit) ==
    [p \in {q \in DOMAIN log : q > 0 /\ (-q) \in DOMAIN log /\ log[-q] <= limit} |-> log[p]]

\* root_ as the statement with result r left it, and whether it threw
Left(r, root_, limit) ==
    [map |-> r.map, created |-> r.created, log |-> r.log, node |-> root_,
     threw |-> Throws(r, limit)]

RECURSIVE ExpandToFitWithin(_, _, _, _, _)
\* The while (true) loop of QuadTree::SetCellAlive up to the throw
ExpandToFitWithin(h, root_, x, y, limit) ==
    IF InBounds(h.map[root_].level, x, y)
    THEN Left(h, root_, limit)
    ELSE CHOOSE r \in {
             IF Throws(e, limit)
             THEN Left(e, root_, limit)
             ELSE ExpandToFitWithin(e, e.node, x, y, limit)
         : e \in {Expand(h, root_)} } : TRUE

\* The body of QuadTree::SetCellAlive(x, y) up to the throw
SetCellAliveWithin(h, root_, x, y, limit) ==
    CHOOSE r \in {
        IF f.threw
        THEN f
        ELSE CHOOSE r \in {
                 Left(n, IF Throws(n, limit) THEN f.node ELSE n.node, limit)
             : n \in {NodeSetCellAlive(f, f.node, x, y)} } : TRUE
    : f \in {ExpandToFitWithin(h, root_, x, y, limit)} } : TRUE

RECURSIVE ExpandLoopWithin(_, _, _)
\* The expansion loop of QuadTree::Step up to the throw
ExpandLoopWithin(h, root_, limit) ==
    IF NeedsExpand(h.map, root_)
    THEN CHOOSE r \in {
             IF Throws(e, limit)
             THEN Left(e, root_, limit)
             ELSE ExpandLoopWithin(e, e.node, limit)
         : e \in {Expand(h, root_)} } : TRUE
    ELSE Left(h, root_, limit)

\* QuadTree::Step() from the expansion loop to `root = root->Compact()`, up
\* to the throw (the statements after it allocate no node)
StepWithin(h, root_, limit) ==
    CHOOSE r \in {
        IF x.threw
        THEN x
        ELSE CHOOSE r \in {
                 IF Throws(e, limit)
                 THEN Left(e, x.node, limit)
                 ELSE CHOOSE r \in {
                          Left(c, IF Throws(c, limit) THEN e.node ELSE c.node, limit)
                      : c \in {Compact(e, e.node)} } : TRUE
             : e \in {Evolve(x, x.node)} } : TRUE
    : x \in {ExpandLoopWithin(h, root_, limit)} } : TRUE

\* QuadTree::SetCellAlive(x, y) left with std::bad_alloc
SetCellAliveThrows(x, y, limit) ==
    /\ Returned
    /\ inserts < MaxInserts
    /\ \E r \in {SetCellAliveWithin(Store, root, x, y, limit)} :
          /\ r.threw
          /\ \E outcome \in OverflowOutcomes(r.map[r.node].level) : outcome # "no return"
          /\ node_map' = StoreAtThrow(r, limit)
          /\ num_nodes_created' = limit
          /\ root' = r.node
    /\ swept' = FALSE
    /\ last_call' = "SetCellAliveThrew"
    /\ UNCHANGED <<display, other, unswept, hashed, num_generations, mpz_above_null, cells, inserts, evolved,
                   steps_evolved, history>>

\* QuadTree::Step() left with std::bad_alloc
StepThrows(limit) ==
    /\ Returned
    /\ num_generations < MaxGenerations
    /\ root # NULL
    /\ node_map[root].population # 0
    /\ \E r \in {StepWithin(Store, root, limit)} :
          /\ r.threw
          /\ node_map' = StoreAtThrow(r, limit)
          /\ num_nodes_created' = limit
          /\ root' = r.node
          /\ evolved' = Evolved(evolved, LogAtThrow(r.log, limit), StoreAtThrow(r, limit))
    /\ swept' = FALSE
    /\ last_call' = "StepThrew"
    /\ UNCHANGED <<display, other, unswept, hashed, num_generations, mpz_above_null, cells, inserts, steps_evolved,
                   history>>

\* The cells SetCellAlive is called with when allocations can fail: two
\* neighbours at the origin, a cell on the border of the level-3 start region
\* [-4, 3], and a cell outside it
FailCells ==
    { <<0, 0>>, <<1, 0>>, <<3, 3>>, <<4, 4>> }

\* A call either returns or is left at one of its first MaxAllocations + 1
\* allocations: the one after the nodes created so far, or a later one
FailNext ==
    \/ \E c \in FailCells : SetCellAlive(c[1], c[2])
    \/ Step
    \/ \E c \in FailCells : \E k \in 0 .. MaxAllocations :
          SetCellAliveThrows(c[1], c[2], num_nodes_created + k)
    \/ \E k \in 0 .. MaxAllocations : StepThrows(num_nodes_created + k)

FailSpec == Init /\ [][FailNext]_vars

\* QuadTreeNode::Evolve on its own, called on each of the 2^16 nodes of
\* level 2.  The node is built with Canonical from its 16 leaves, root holds
\* it and cells the coordinates of its live leaves when it is displayed at
\* (0, 0).

\* The coordinates of the 16 leaves of a level-2 node displayed at (0, 0)
Grid4 == (-2 .. 1) \X (-2 .. 1)

\* The canonical level-1 node whose south-east leaf is the cell (x, y), with
\* the leaves dead and live: those of its four leaves that are in S are live
Level1Node(h, dead, live, S, x, y) ==
    CanonicalNode(h,
                  IF <<x - 1, y - 1>> \in S THEN live ELSE dead,
                  IF <<x, y - 1>> \in S THEN live ELSE dead,
                  IF <<x - 1, y>> \in S THEN live ELSE dead,
                  IF <<x, y>> \in S THEN live ELSE dead,
                  1)

\* The canonical level-2 node whose live leaves are the cells S of Grid4
Level2Node(h, S) ==
    CHOOSE r \in {
    CHOOSE r \in {
    CHOOSE r \in {
    CHOOSE r \in {
    CHOOSE r \in {
    CHOOSE r \in {
        CanonicalNode(se, nw.node, ne.node, sw.node, se.node, 2)
    : se \in {Level1Node(sw, dead.node, live.node, S, 1, 1)} } : TRUE
    : sw \in {Level1Node(ne, dead.node, live.node, S, -1, 1)} } : TRUE
    : ne \in {Level1Node(nw, dead.node, live.node, S, 1, -1)} } : TRUE
    : nw \in {Level1Node(live, dead.node, live.node, S, -1, -1)} } : TRUE
    : live \in {CanonicalLeaf(dead, 1)} } : TRUE
    : dead \in {CanonicalLeaf(h, 0)} } : TRUE

Level2Init ==
    /\ mpz_above_null \in BOOLEAN
    /\ \E S \in SUBSET Grid4 :
       \E n \in {Level2Node([map |-> << >>, created |-> 0, log |-> << >>], S)} :
          /\ node_map = n.map
          /\ num_nodes_created = n.created
          /\ root = n.node
          /\ cells = S
          /\ history = << Shown(n.map, n.node) >>
    /\ num_generations = 0
    /\ inserts = 0
    /\ evolved = << >>
    /\ swept = FALSE
    /\ last_call = "Canonical"
    /\ steps_evolved = 0
    /\ display = NoDisplay
    /\ hashed = NoHash
    /\ unswept = [map |-> node_map, created |-> num_nodes_created, node |-> root,
                generations |-> 0]
    /\ other = [node |-> NULL, state |-> "none"]

\* root->Evolve()
EvolveRoot ==
    /\ node_map[root].calc = NULL
    /\ \E e \in {Evolve(Store, root)} :
          /\ node_map' = e.map
          /\ num_nodes_created' = e.created
          /\ evolved' = Evolved(evolved, e.log, e.map)
          /\ history' = Append(history, Shown(e.map, e.node))
    /\ last_call' = "Evolve"
    /\ UNCHANGED <<display, other, unswept, hashed, root, num_generations, mpz_above_null, cells, inserts, swept,
                   steps_evolved>>

Level2Spec == Level2Init /\ [][EvolveRoot]_vars

\* QuadTreeNode::Evolve on its own, called on nodes of level 3 and above:
\* the glider and the blinker row at the places around the centre of the node
\* and against its outer boundary.  The node is built with QuadTreeNode::SetCellAlive on
\* EmptyQuadTree(level); root holds it and cells its live cells.

\* The patterns, with the size of the square they fit in
NodePatterns ==
    { [list |-> << <<1, 0>>, <<2, 1>>, <<0, 2>>, <<1, 2>>, <<2, 2>> >>, width |-> 3, height |-> 3],
      [list |-> << <<0, 0>>, <<1, 0>>, <<2, 0>> >>, width |-> 3, height |-> 1] }

\* The list moved by (dx, dy)
Moved(list, dx, dy) == [i \in DOMAIN list |-> <<list[i][1] + dx, list[i][2] + dy>>]

\* The places of a pattern of the given extent inside a node of the given
\* level: against the two outer boundaries, and every place around the centre
Places(level, extent) ==
    { -(2^(level - 1)), 2^(level - 1) - extent }
    \cup { d \in (-6) .. 3 : d >= -(2^(level - 1)) /\ d <= 2^(level - 1) - extent }

LevelNInit ==
    /\ mpz_above_null \in BOOLEAN
    /\ \E level \in 3 .. MaxEvolveLevel :
       \E p \in NodePatterns :
       \E dx \in Places(level, p.width) :
       \E dy \in Places(level, p.height) :
       \E e \in {EmptyQuadTree([map |-> << >>, created |-> 0, log |-> << >>], level)} :
       \E n \in {SetCellsAliveBody(e, e.node, Moved(p.list, dx, dy), 1)} :
          /\ node_map = n.map
          /\ num_nodes_created = n.created
          /\ root = n.node
          /\ cells = Range(Moved(p.list, dx, dy))
          /\ history = << Shown(n.map, n.node) >>
    /\ num_generations = 0
    /\ inserts = 0
    /\ evolved = << >>
    /\ swept = FALSE
    /\ last_call = "Canonical"
    /\ steps_evolved = 0
    /\ display = NoDisplay
    /\ hashed = NoHash
    /\ unswept = [map |-> node_map, created |-> num_nodes_created, node |-> root,
                generations |-> 0]
    /\ other = [node |-> NULL, state |-> "none"]

LevelNSpec == LevelNInit /\ [][EvolveRoot]_vars

(***************************************************************************)
(* The offset computation of BuildDisplayList on its own.  It depends on   *)
(* the node's level only, and the levels at which it leaves the table are  *)
(* far above those of any tree the other specifications build: the levels  *)
(* are drawn from 2 up to MaxBeyondTable levels past the table's end.      *)
(***************************************************************************)
DisplayLevels == 2 .. LEVEL_MAX + 1 + MaxBeyondTable

\* QuadTreeNode::BuildDisplayList entered on an inner node of the level
BuildDisplayListAt(level) ==
    /\ display' = [level |-> level, offset |-> MpzOffset(level), shift |-> ChildShift]
    /\ UNCHANGED <<node_map, num_nodes_created, root, num_generations, mpz_above_null,
                   cells, inserts, evolved, swept, last_call, steps_evolved, history,
                   hashed, unswept, other>>

OffsetNext == \E level \in DisplayLevels : BuildDisplayListAt(level)

OffsetSpec == Init /\ [][OffsetNext]_vars

(***************************************************************************)
(* HashFunction on its own.  The hash of an inner node depends on the four *)
(* child pointers only; they are drawn from all the values of the width    *)
(* SizeBits, so that the sum wraps for some of them.                       *)
(***************************************************************************)
Pointers == 0 .. 2^SizeBits - 1

\* An inner node with the given child pointers, as HashFunction reads it
Pointed(nw, ne, sw, se) ==
    [nw |-> nw, ne |-> ne, sw |-> sw, se |-> se, level |-> 1, population |-> 0]

\* HashFunction applied, once, to an inner node with the given child pointers
Hash(nw, ne, sw, se) ==
    /\ hashed = NoHash
    /\ hashed' = [nw |-> nw, ne |-> ne, sw |-> sw, se |-> se,
                  hash |-> HashFunction(Pointed(nw, ne, sw, se))]
    /\ UNCHANGED <<node_map, num_nodes_created, root, num_generations, mpz_above_null,
                   cells, inserts, evolved, swept, last_call, steps_evolved, history,
                   display, unswept, other>>

HashNext == \E nw \in Pointers, ne \in Pointers, sw \in Pointers, se \in Pointers :
                Hash(nw, ne, sw, se)

HashSpec == Init /\ [][HashNext]_vars

(***************************************************************************)
(* The universe run beside one in which no sweep is ever run.  Both start  *)
(* from the empty store and receive the same calls; the second keeps a     *)
(* store of its own in unswept, and its Step ends after ++num_generations. *)
(***************************************************************************)
Unswept == [map |-> unswept.map, created |-> unswept.created, log |-> << >>]

\* The universe u with the store h and the root node_
Universe(h, node_, generations) ==
    [map |-> h.map, created |-> h.created, node |-> node_, generations |-> generations]

\* QuadTree::Step() from the expansion loop to ++num_generations
StepBodyWithoutSweep(h, root_, generations) ==
    CHOOSE r \in {
    CHOOSE r \in {
    CHOOSE r \in {
        Universe(c, c.node, generations + 1)
    : c \in {Compact(e, e.node)} } : TRUE
    : e \in {Evolve(x, x.node)} } : TRUE
    : x \in {ExpandLoop(h, root_)} } : TRUE

\* QuadTree::Step() on the universe in which no sweep is run
StepWithoutSweep(u) ==
    IF u.node = NULL \/ u.map[u.node].population = 0 THEN u
    ELSE StepBodyWithoutSweep([map |-> u.map, created |-> u.created, log |-> << >>],
                              u.node, u.generations)

\* The patterns both universes are started from: two blinkers side by side
\* (after two Steps the root is again the node it was, with the calc fields
\* the first Step left below it) and the glider
SweepLists ==
    { << <<-1, 0>>, <<0, 0>>, <<1, 0>>, <<4, 1>>, <<5, 1>>, <<6, 1>> >>,
      << <<1, 0>>, <<2, 1>>, <<0, 2>>, <<1, 2>>, <<2, 2>> >> }

\* QuadTree::SetCellsAlive(input) called on both universes
SetCellsAliveInBoth(input) ==
    /\ Returned
    /\ inserts < MaxInserts
    /\ \E r \in {SetCellsAliveBody(Store, root, input, 1)} :
       \E u \in {SetCellsAliveBody(Unswept, unswept.node, input, 1)} :
       \E outcome \in OverflowOutcomes(r.map[r.node].level) :
          IF outcome = "no return"
          THEN /\ last_call' = "SetCellsAliveNoReturn"
               /\ UNCHANGED <<node_map, num_nodes_created, root, cells, inserts, swept,
                              history, unswept>>
          ELSE /\ node_map' = r.map
               /\ num_nodes_created' = r.created
               /\ root' = r.node
               /\ cells' = cells \cup Range(input)
               /\ inserts' = inserts + 1
               /\ swept' = FALSE
               /\ last_call' = "SetCellsAlive"
               /\ history' = << Shown(r.map, r.node) >>
               /\ unswept' = Universe(u, u.node, unswept.generations)
    /\ UNCHANGED <<display, other, hashed, num_generations, mpz_above_null, evolved, steps_evolved>>

\* QuadTree::Step() called on both universes
StepInBoth ==
    /\ Returned
    /\ num_generations < MaxGenerations
    /\ IF root = NULL \/ node_map[root].population = 0
       THEN /\ swept' = FALSE
            /\ last_call' = "StepReturnedEarly"
            /\ UNCHANGED <<node_map, num_nodes_created, root, num_generations, cells,
                           evolved, history>>
       ELSE \E r \in {StepBody(Store, root, num_generations)} :
               /\ root' = r.node
               /\ num_generations' = r.generations
               /\ node_map' = r.map
               /\ num_nodes_created' = r.created
               /\ evolved' = Evolved(evolved, r.log, r.map)
               /\ swept' = r.collected
               /\ cells' = ConwayNext(cells)
               /\ last_call' = "StepEvolved"
               /\ history' = Append(history, Shown(r.map, r.node))
    /\ unswept' = StepWithoutSweep(unswept)
    /\ steps_evolved' = steps_evolved + PopulatedAtCall
    /\ UNCHANGED <<display, other, hashed, mpz_above_null, inserts>>

SweepNext ==
    \/ \E input \in SweepLists : SetCellsAliveInBoth(input)
    \/ StepInBoth

SweepSpec == Init /\ [][SweepNext]_vars

-----------------------------------------------------------------------------
(* Properties *)

\* The nodes held by the store, and those of them that are leaves / inner nodes
Nodes == DOMAIN node_map
Leaves == {p \in Nodes : node_map[p].level = 0}
Inner == {p \in Nodes : node_map[p].level # 0}

\* The handles the nodes of S point to through nw, ne, sw, se and calc (a
\* handle that is not in the store points nowhere)
Successors(S) ==
    {node_map[p][f] : p \in S \cap Nodes, f \in {"nw", "ne", "sw", "se", "calc"}} \ {NULL}

RECURSIVE Closure(_)
\* The least set that contains S and the successors of its members
Closure(S) == IF Successors(S) \subseteq S THEN S ELSE Closure(S \cup Successors(S))

\* The handles reachable from the root through nw, ne, sw, se and calc
Reachable == Closure({root})

\* The set of cells BuildDisplayList(0, 0) on the root enumerates
DisplayedCells == Range(BuildDisplayList(node_map, root, 0, 0))

\* C1: after any cells made alive by SetCellAlive and k calls of Step, the
\* cells BuildDisplayList(0, 0) enumerates on the root are the k-th iterate of
\* Conway's rule on the cells made alive (cells follows that rule on the
\* unbounded grid): no cell is lost, added or moved.
C1_DisplayIsConway == DisplayedCells = cells

C1_Witness ==
    /\ num_generations >= 3
    /\ swept
    /\ Cardinality(cells) >= 3
    /\ DisplayedCells = cells

\* What EqualFunction compares: the aliveness of a leaf, the level and the
\* four child handles of an inner node
StructuralKey(node) ==
    IF node.level = 0 THEN <<0, node.alive>>
    ELSE <<node.level, node.nw, node.ne, node.sw, node.se>>

\* C2: canonicity.  No two distinct nodes of node_map are structurally equal
\* (the structural keys of the nodes are pairwise different), and node_map
\* holds at most two leaves.
C2_Canonicity ==
    /\ \A p, q \in Nodes :
          StructuralKey(node_map[p]) = StructuralKey(node_map[q]) => p = q
    /\ Cardinality(Leaves) <= 2

C2_Witness ==
    /\ num_generations >= 2
    /\ Cardinality(Leaves) = 2
    /\ \E p \in Inner : node_map[p].calc # NULL
    /\ C2_Canonicity

\* C3: no dangling handle.  The root and every handle reachable from it
\* through nw, ne, sw, se and calc is in node_map.
C3_NoDanglingHandle == Reachable \subseteq Nodes

C3_Witness ==
    /\ swept
    /\ Cardinality(Nodes) < num_nodes_created
    /\ \E p \in Reachable \cap Nodes : node_map[p].calc # NULL /\ node_map[p].population > 0
    /\ Reachable \subseteq Nodes

\* C4: right after a sweep of CollectGarbage, node_map holds exactly the
\* nodes reachable from the root through nw, ne, sw, se and calc.
C4_SweepKeepsExactlyReachable == swept => Nodes = Reachable

C4_Witness ==
    /\ swept
    /\ cells # {}
    /\ Cardinality(Nodes) < num_nodes_created
    /\ Nodes = Reachable

\* The result second of a call of Evolve made right after the call whose
\* result is first: the same handle, and the map and the creation counter as
\* the first call left them
SecondCallIsIdle(first, second) ==
    /\ second.node = first.node
    /\ second.map = first.map
    /\ second.created = first.created

\* Two consecutive calls of Evolve on the node n of the store
TwoCallsAgree(n) ==
    \A first \in {Evolve(Store, n)} : SecondCallIsIdle(first, Evolve(first, n))

\* C5: evolution determinism.  For a node of level >= 2 held by the store, a
\* call of Evolve returns the handle an earlier call returned (evolved), also
\* after further Steps and after sweeps that kept the node; and the second of
\* two consecutive calls returns the handle of the first, creates no node and
\* changes nothing in the store.
C5_EvolveDeterministic ==
    /\ \A n \in DOMAIN evolved :
          /\ n \in Nodes
          /\ Evolve(Store, n).node = evolved[n]
    /\ \A n \in Nodes : node_map[n].level >= 2 => TwoCallsAgree(n)

C5_Witness ==
    /\ swept
    /\ \E n \in DOMAIN evolved :
          /\ node_map[n].level >= 2
          /\ node_map[n].population > 0
          /\ Evolve(Store, n).node = evolved[n]
          /\ TwoCallsAgree(n)
    /\ \E n \in Nodes :
          /\ node_map[n].level >= 3
          /\ node_map[n].population > 0
          /\ node_map[n].calc = NULL
          /\ TwoCallsAgree(n)

\* C6: immutability.  In every step, a node that stays in node_map keeps its
\* level, its four children, its population and its alive flag, and a calc
\* that is set keeps its value (calc changes at most once, from null).
C6_Immutable ==
    [][\A n \in DOMAIN node_map \cap DOMAIN node_map' :
          /\ node_map'[n].level = node_map[n].level
          /\ node_map'[n].nw = node_map[n].nw
          /\ node_map'[n].ne = node_map[n].ne
          /\ node_map'[n].sw = node_map[n].sw
          /\ node_map'[n].se = node_map[n].se
          /\ node_map'[n].population = node_map[n].population
          /\ node_map'[n].alive = node_map[n].alive
          /\ (node_map[n].calc # NULL => node_map'[n].calc = node_map[n].calc)]_vars

C6_Witness ==
    /\ num_generations >= 3
    /\ \E n \in DOMAIN evolved :
          /\ n < root
          /\ node_map[n].population > 0
          /\ node_map[n].calc = evolved[n]

\* C7: population additivity.  A leaf has population 0 or 1, 1 iff it is
\* alive; an inner node has the sum of the populations of its four children;
\* so the population of the root is the number of live cells.
C7_PopulationAdditive ==
    /\ \A p \in Leaves :
          /\ node_map[p].population \in {0, 1}
          /\ node_map[p].population = 1 <=> node_map[p].alive # 0
    /\ \A p \in Inner :
          node_map[p].population =
              node_map[node_map[p].nw].population + node_map[node_map[p].ne].population
              + node_map[node_map[p].sw].population + node_map[node_map[p].se].population
    /\ node_map[root].population = Cardinality(DisplayedCells)

C7_Witness ==
    /\ num_generations >= 1
    /\ node_map[root].population >= 5
    /\ node_map[node_map[root].se].population >= 1
    /\ C7_PopulationAdditive

\* C8: for every node of the store, leaf or inner, alive is set iff the
\* population of the node is greater than 0.
C8_AliveIffPopulated ==
    \A p \in Nodes : node_map[p].alive # 0 <=> node_map[p].population > 0

\* C9: level stratification.  A leaf has level 0 and no children; an inner
\* node of level L has four children in the store, all of level L - 1; a calc
\* that is set is a node of the store of level L - 1.
C9_LevelStratified ==
    /\ \A p \in Nodes : node_map[p].level >= 0
    /\ \A p \in Leaves :
          /\ node_map[p].nw = NULL
          /\ node_map[p].ne = NULL
          /\ node_map[p].sw = NULL
          /\ node_map[p].se = NULL
    /\ \A p \in Inner : \A f \in {"nw", "ne", "sw", "se"} :
          /\ node_map[p][f] \in Nodes
          /\ node_map[node_map[p][f]].level = node_map[p].level - 1
    /\ \A p \in Nodes : node_map[p].calc # NULL =>
          /\ node_map[p].calc \in Nodes
          /\ node_map[node_map[p].calc].level = node_map[p].level - 1

C9_Witness ==
    /\ \E p \in Nodes :
          /\ node_map[p].level >= 5
          /\ node_map[p].population > 0
          /\ node_map[p].calc # NULL
          /\ node_map[node_map[p].calc].level = node_map[p].level - 1
    /\ \E p \in Nodes :
          /\ node_map[p].level = 2
          /\ node_map[p].population > 0
          /\ node_map[p].calc # NULL
          /\ node_map[node_map[p].calc].level = 1

\* C10 as stated: between operations the root is an inner node of level >= 3.
C10_RootLevelAtLeast3 ==
    /\ root \in Nodes
    /\ node_map[root].level >= 3

\* C10: between operations the root is an inner node of level >= 2, and of
\* level >= 3 as long as no Step has advanced the generation.
C10_RootLevelAtLeast2 ==
    /\ root \in Nodes
    /\ node_map[root].level >= 2
    /\ num_generations = 0 => node_map[root].level >= 3

C10_Witness ==
    /\ num_generations >= 1
    /\ node_map[root].level = 2
    /\ node_map[root].population > 0

\* C11 as stated: a call of Step on a universe whose root has no live cell
\* adds one to num_generations, leaves the population at 0 and leaves the
\* level of the root as it was.
C11_EmptyStepCounts ==
    [][(node_map[root].population = 0 /\ Step) =>
          /\ num_generations' = num_generations + 1
          /\ node_map'[root'].population = 0
          /\ node_map'[root'].level = node_map[root].level]_vars

\* C12: num_generations is the number of Step calls made with a live cell in
\* the root: it starts at 0, each such Step adds exactly 1, and no other
\* operation (SetCellAlive, SetCellsAlive, a Step that returns early, a sweep)
\* changes it.
C12_GenerationsCountEvolves == num_generations = steps_evolved

C12_Witness ==
    /\ last_call = "StepReturnedEarly"
    /\ inserts >= 1
    /\ num_generations >= 1
    /\ num_generations = steps_evolved

\* C13 as stated: round trip of insertion.  After SetCellAlive/SetCellsAlive
\* calls on a fresh universe, with coordinates anywhere in the int64_t range,
\* the ends included, every call has returned and BuildDisplayList(0, 0) on
\* the root yields exactly the coordinates given.
C13_InsertRoundTrip ==
    (num_generations = 0 /\ last_call # "QuadTree") =>
        /\ Returned
        /\ DisplayedCells = cells

\* C14: the list BuildDisplayList(0, 0) fills on the root holds every live
\* cell exactly once: no coordinate pair occurs twice, no live cell is
\* missing, and the length of the list is the population of the root.
C14_DisplayListExact ==
    \A list \in {BuildDisplayList(node_map, root, 0, 0)} :
        /\ Cardinality(Range(list)) = Len(list)
        /\ cells \subseteq Range(list)
        /\ Len(list) = node_map[root].population

C14_Witness ==
    /\ num_generations >= 1
    /\ swept
    /\ Len(BuildDisplayList(node_map, root, 0, 0)) >= 6
    /\ \E p \in Reachable \cap Nodes : node_map[p].level = 2 /\ node_map[p].population = 0

RECURSIVE Orders(_)
\* The sequences that hold every member of S once
Orders(S) ==
    IF S = {} THEN { << >> }
    ELSE UNION { { <<c>> \o seq : seq \in Orders(S \ {c}) } : c \in S }

\* The sequences that hold every member of S once, or once and one of them
\* once more
OrdersWithRepetition(S) ==
    Orders(S) \cup UNION { { seq \o <<c>>, <<c>> \o seq } : c \in S, seq \in Orders(S) }

\* The root of a second universe constructed on the store as it is now and
\* given the cells of seq in that order
SecondUniverse(seq) ==
    CHOOSE r \in {
        SetCellsAliveBody(u, u.node, seq, 1)
    : u \in {EmptyQuadTree(Store, kStartLevels)} } : TRUE

\* C15: insertion is independent of order and idempotent at the level of
\* handles.  Before the first Step, a second universe on the same store that
\* is given the cells of this universe in any order, with or without a
\* repeated cell, ends with the root handle of this universe.
C15_InsertOrderIndependent ==
    (num_generations = 0 /\ Returned) =>
        \A seq \in OrdersWithRepetition(cells) : SecondUniverse(seq).node = root

C15_Witness ==
    /\ num_generations = 0
    /\ Cardinality(cells) = 2
    /\ node_map[root].level = 4
    /\ \E c \in cells : c[1] \in -4..3 /\ c[2] \in -4..3
    /\ \A seq \in OrdersWithRepetition(cells) : SecondUniverse(seq).node = root

\* EmptyQuadTree(level)->Evolve() and EmptyQuadTree(level - 1), called in
\* that order on the store as it is now, return the same handle
EmptyEvolvesToEmpty(level) ==
    \A e \in {EmptyQuadTree(Store, level)} :
    \A c \in {Evolve(e, e.node)} :
        c.node = EmptyQuadTree(c, level - 1).node

\* C16: empty fixed point.  For every level L >= 2,
\* EmptyQuadTree(L)->Evolve() is the handle of EmptyQuadTree(L - 1).
C16_EmptyFixedPoint ==
    Returned => \A level \in 2..MaxEmptyLevel : EmptyEvolvesToEmpty(level)

C16_Witness ==
    /\ swept
    /\ \E level \in 2..MaxEmptyLevel :
          /\ EmptyQuadTree(Store, level).created > num_nodes_created
          /\ EmptyEvolvesToEmpty(level)
    /\ \E p \in Nodes :
          /\ node_map[p].level >= 3
          /\ node_map[p].population = 0
          /\ node_map[p].calc = node_map[p].nw

\* The two phases of the blinker of the first scenario
BlinkerRow == { <<0, 0>>, <<1, 0>>, <<2, 0>> }
BlinkerColumn == { <<1, -1>>, <<1, 0>>, <<1, 1>> }

\* C17: blinker.  From the live cells {(0,0), (1,0), (2,0)}, after an odd
\* number of Steps the live cells are {(1,-1), (1,0), (1,1)}, after an even
\* number they are the starting cells again, and the population is 3 after
\* every Step.
C17_Blinker ==
    history[1].cells = BlinkerRow =>
        \A i \in DOMAIN history :
            /\ history[i].cells = (IF i % 2 = 1 THEN BlinkerRow ELSE BlinkerColumn)
            /\ history[i].population = 3

C17_Witness ==
    /\ history[1].cells = BlinkerRow
    /\ Len(history) >= 4
    /\ history[2].cells = BlinkerColumn
    /\ history[3].cells = BlinkerRow

\* The cells of S moved by (dx, dy)
Translate(S, dx, dy) == { <<c[1] + dx, c[2] + dy>> : c \in S }

\* The glider of the third scenario
Glider == { <<1, 0>>, <<2, 1>>, <<0, 2>>, <<1, 2>>, <<2, 2>> }

\* C18: glider.  From the live cells of the glider, the live cells after
\* every 4 further Steps are those of 4 Steps earlier moved by (+1, +1), and
\* the population is 5 after every Step.
C18_Glider ==
    history[1].cells = Glider =>
        \A i \in DOMAIN history :
            /\ history[i].population = 5
            /\ i > 4 => history[i].cells = Translate(history[i - 4].cells, 1, 1)

C18_Witness ==
    /\ history[1].cells = Glider
    /\ Len(history) >= 5
    /\ history[5].cells = Translate(Glider, 1, 1)
    /\ history[3].cells # history[1].cells

\* The two phases of the blinker of addOscillator, whose row is one below
\* INT64_MAX and whose column reaches INT64_MAX
EdgeBlinkerRow == { <<-1, Int64Max - 1>>, <<0, Int64Max - 1>>, <<1, Int64Max - 1>> }
EdgeBlinkerColumn == { <<0, Int64Max - 2>>, <<0, Int64Max - 1>>, <<0, Int64Max>> }

\* C19: blinker at the edge of the input range.  Once the blinker of
\* addOscillator has been inserted, after every number of Steps the
\* population is 3, the displayed cells are the exact phase of the blinker
\* (the column includes the cell at INT64_MAX, not a wrapped coordinate), and
\* the level of the root is the level it had after the insertion.
C19_EdgeBlinker ==
    history[1].cells = EdgeBlinkerRow =>
        \A i \in DOMAIN history :
            /\ history[i].cells = (IF i % 2 = 1 THEN EdgeBlinkerRow ELSE EdgeBlinkerColumn)
            /\ history[i].population = 3
            /\ history[i].level = history[1].level

C19_Witness ==
    /\ history[1].cells = EdgeBlinkerRow
    /\ history[1].level = Int64Bits
    /\ Len(history) >= 4
    /\ <<0, Int64Max>> \in history[2].cells
    /\ history[3].cells = EdgeBlinkerRow

\* C20: failure atomicity.  A call of Step or SetCellAlive that a failed node
\* allocation ends leaves the root handle, the level of the root and the
\* generation counter as they were before the call.
C20_FailureAtomic ==
    [][last_call' \in {"SetCellAliveThrew", "StepThrew"} =>
          /\ root' = root
          /\ node_map'[root'].level = node_map[root].level
          /\ num_generations' = num_generations]_vars

\* C21: garbage-collection schedule.  A Step that evolves increments the
\* generation counter and then sweeps iff the incremented counter is a
\* multiple of GARBAGE_COLLECTION_GENERATIONS_COUNT; the sweep marks from the
\* root the Step leaves (the compacted one), so that exactly the nodes
\* reachable from it remain; a Step that does not sweep, and every other
\* operation, removes no node.
C21_SweepSchedule ==
    [][IF num_generations' # num_generations
       THEN /\ num_generations' = num_generations + 1
            /\ swept' = (num_generations' % GARBAGE_COLLECTION_GENERATIONS_COUNT = 0)
            /\ IF swept' THEN Nodes' = Reachable' ELSE Nodes \subseteq Nodes'
       ELSE Nodes \subseteq Nodes']_vars

C21_Witness ==
    /\ last_call = "StepEvolved"
    /\ num_generations = GARBAGE_COLLECTION_GENERATIONS_COUNT + 1
    /\ ~swept
    /\ Nodes # Reachable

\* The cells BuildDisplayList(0, 0) reports for the node n of the store h
CellsOf(h, n) == Range(BuildDisplayList(h.map, n, 0, 0))

\* The coordinates of the central square of side 2^(level - 2) of a node of
\* the given level >= 3 displayed at (0, 0): the four sub-quadrants nw.se.se,
\* ne.sw.sw, sw.ne.ne, se.nw.nw
CentralSquare(level) ==
    (-(2^(level - 3)) .. 2^(level - 3) - 1) \X (-(2^(level - 3)) .. 2^(level - 3) - 1)

\* The root x.node that the expansion loop of Step hands to Evolve has its
\* live cells in the central square, and Evolve returns their next generation
BorderedAndEvolved(x) ==
    /\ x.map[x.node].level >= 3
    /\ CellsOf(x, x.node) \subseteq CentralSquare(x.map[x.node].level)
    /\ x.map[x.node].population =
          x.map[Child3(x.map, x.node, "nw", "se", "se")].population
          + x.map[Child3(x.map, x.node, "ne", "sw", "sw")].population
          + x.map[Child3(x.map, x.node, "sw", "ne", "ne")].population
          + x.map[Child3(x.map, x.node, "se", "nw", "nw")].population
    /\ \A e \in {Evolve(x, x.node)} :
          /\ e.map[e.node].level = x.map[x.node].level - 1
          /\ CellsOf(e, e.node) = ConwayNext(CellsOf(x, x.node))

\* C22: border before evolution.  The root on which Step calls Evolve has
\* level >= 3 and all its live cells in the four sub-quadrants nw.se.se,
\* ne.sw.sw, sw.ne.ne, se.nw.nw, and the node Evolve returns holds every cell
\* of the next generation.
C22_BorderBeforeEvolve ==
    (Returned /\ root # NULL /\ node_map[root].population # 0) =>
        BorderedAndEvolved(ExpandLoop(Store, root))

C22_Witness ==
    /\ Returned
    /\ node_map[root].population # 0
    /\ node_map[root].level >= 4
    /\ ~(DisplayedCells \subseteq CentralSquare(node_map[root].level))
    /\ ExpandLoop(Store, root).map[ExpandLoop(Store, root).node].level = node_map[root].level + 2
    /\ BorderedAndEvolved(ExpandLoop(Store, root))

\* The node r.node of the store r has the population and the displayed cells
\* of the node n of the store h
Reframed(h, n, r) ==
    /\ r.map[r.node].population = h.map[n].population
    /\ CellsOf(r, r.node) = CellsOf(h, n)

\* C23: Expand and Compact re-frame.  For an inner node, Expand returns a
\* node one level higher, and Compact a node of the same or a lower level,
\* with the same population and the same cells at the same coordinates.
C23_ReframingPure ==
    Returned =>
        \A n \in Inner :
            /\ \A r \in {Expand(Store, n)} :
                  /\ r.map[r.node].level = node_map[n].level + 1
                  /\ Reframed(Store, n, r)
            /\ \A c \in {Compact(Store, n)} :
                  /\ c.map[c.node].level <= node_map[n].level
                  /\ Reframed(Store, n, c)

C23_Witness ==
    /\ Returned
    /\ \E n \in Inner :
          /\ node_map[n].population > 1
          /\ Compact(Store, n).map[Compact(Store, n).node].level = node_map[n].level - 1
          /\ Reframed(Store, n, Compact(Store, n))
    /\ \E n \in Inner :
          /\ node_map[n].level = 1
          /\ node_map[n].population > 0
          /\ Reframed(Store, n, Expand(Store, n))

\* The 12 outer grandchildren of the node n (level >= 2) of the store h are
\* the empty node
PeripheryEmpty(h, n) ==
    \A e \in {EmptyQuadTree(h, h.map[n].level - 2)} : OuterEmpty(e.map, n, e.node)

\* C24: compaction is maximal and idempotent.  The node Compact returns has
\* level < 3 or an outer grandchild that is not the empty node, Compact on it
\* returns the same handle, and Compact lowers the level of its argument only
\* if the 12 outer grandchildren of the argument are empty.
C24_CompactMaximal ==
    Returned =>
        \A n \in Inner :
            \A c \in {Compact(Store, n)} :
                /\ c.map[c.node].level < 3 \/ ~PeripheryEmpty(c, c.node)
                /\ Compact(c, c.node).node = c.node
                /\ c.map[c.node].level < node_map[n].level =>
                      /\ node_map[n].level >= 3
                      /\ PeripheryEmpty(Store, n)

C24_Witness ==
    /\ Returned
    /\ \E n \in Inner :
          /\ node_map[n].population > 0
          /\ Compact(Store, n).map[Compact(Store, n).node].level = node_map[n].level - 2
          /\ Compact(Compact(Store, n), Compact(Store, n).node).node = Compact(Store, n).node
    /\ \E n \in Inner :
          /\ node_map[n].level >= 3
          /\ ~PeripheryEmpty(Store, n)
          /\ Compact(Store, n).node = n

\* Conway's rule for the cell c when the live cells are S
LivesOn(S, c) ==
    IF c \in S THEN LiveNeighbours(S, c) \in {2, 3} ELSE LiveNeighbours(S, c) = 3

\* The four centre cells of a node displayed at (0, 0)
Centre4 == (-1 .. 0) \X (-1 .. 0)

\* C25: level-2 base case.  For each of the 2^16 nodes of level 2, Evolve
\* returns a level-1 node whose four leaves, in their places, are the next
\* states of the four centre cells by Conway's rule on their eight
\* neighbours.
C25_Level2BaseCase ==
    /\ node_map[root].level = 2
    /\ last_call = "Canonical" => CellsOf(Store, root) = cells
    /\ last_call = "Evolve" =>
          /\ node_map[node_map[root].calc].level = 1
          /\ CellsOf(Store, node_map[root].calc) = {c \in Centre4 : LivesOn(cells, c)}

C25_Witness ==
    /\ last_call = "Evolve"
    /\ Cardinality(cells) = 7
    /\ Cardinality(CellsOf(Store, node_map[root].calc)) = 3
    /\ cells \cap Centre4 = {<<-1, -1>>}
    /\ <<-1, -1>> \notin CellsOf(Store, node_map[root].calc)

\* The cells of S in the square of side 2 * half centred at (ox, oy), as
\* coordinates relative to that centre
Window(S, ox, oy, half) ==
    { <<c[1] - ox, c[2] - oy>> :
        c \in { d \in S : /\ d[1] - ox \in (-half) .. (half - 1)
                           /\ d[2] - oy \in (-half) .. (half - 1) } }

\* n00 .. n22 of EvolveLevelN by row (north to south) and column (west to
\* east)
Nonants(i) ==
    << << i.n00, i.n01, i.n02 >>, << i.n10, i.n11, i.n12 >>, << i.n20, i.n21, i.n22 >> >>

\* The nine nodes EvolveLevelN gets for the node n (level >= 3) of the store
\* h hold the nine squares of side 2^(level - 2) that tile the centre of n
NonantsTile(h, n) ==
    \A i \in {InnerNodes(h, n)} :
        \A j \in 1 .. 3 : \A k \in 1 .. 3 :
            /\ i.map[Nonants(i)[j][k]].level = h.map[n].level - 2
            /\ CellsOf(i, Nonants(i)[j][k]) =
                  Window(CellsOf(h, n), (k - 2) * 2^(h.map[n].level - 2),
                         (j - 2) * 2^(h.map[n].level - 2), 2^(h.map[n].level - 3))

\* Evolve on the node n (level >= 3) of the store h returns the node of the
\* next level down that holds the next generation of the centre of n
EvolvesCentre(h, n) ==
    \A e \in {Evolve(h, n)} :
        /\ e.map[e.node].level = h.map[n].level - 1
        /\ CellsOf(e, e.node) =
              { c \in CentralSquare(h.map[n].level + 1) : LivesOn(CellsOf(h, n), c) }

\* C26: recursive case.  For a node of level >= 3, the nine nodes
\* EvolveLevelN builds are the nine squares of side 2^(L-2) tiling the centre
\* of the node, and Evolve returns the node of level L-1 whose cells are the
\* centre 2^(L-1) x 2^(L-1) cells of the node after one generation of
\* Conway's rule on the whole node, also when the node has live cells on its
\* outer boundary.
C26_RecursiveCase ==
    /\ node_map[root].level >= 3
    /\ CellsOf(Store, root) = cells
    /\ last_call = "Canonical" => NonantsTile(Store, root)
    /\ EvolvesCentre(Store, root)

C26_Witness ==
    /\ last_call = "Evolve"
    /\ node_map[root].level = 3
    /\ cells = { <<2, -1>>, <<3, 0>>, <<1, 1>>, <<2, 1>>, <<3, 1>> }
    /\ CellsOf(Store, node_map[root].calc) = { <<1, 0>> }
    /\ NonantsTile(Store, root)

(***************************************************************************)
(* The depth of Evolve's recursion.  Evolve (quad_tree_node.cpp 141-156)   *)
(* returns at once for a node whose calc is set and for a node without     *)
(* population, runs EvolveLevel2 for a level-2 node and EvolveLevelN       *)
(* otherwise; EvolveLevelN calls Evolve on four nodes one level lower, one *)
(* after the other, each call seeing the calc fields the calls before it   *)
(* wrote.  EvolveDepth is the number of Evolve calls nested below a call.  *)
(***************************************************************************)
EvolveCaseWithoutEmpty(map, this) ==
    CASE map[this].calc # NULL -> "calc"
      [] map[this].level = 2 -> "EvolveLevel2"
      [] OTHER -> "EvolveLevelN"

EvolveCase(map, this) ==
    CASE map[this].calc # NULL -> "calc"
      [] map[this].population = 0 -> "empty"
      [] map[this].level = 2 -> "EvolveLevel2"
      [] OTHER -> "EvolveLevelN"

Largest(S) == CHOOSE m \in S : \A k \in S : k <= m

RECURSIVE EvolveDepth(_, _)
EvolveDepth(h, this) ==
    IF EvolveCase(h.map, this) # "EvolveLevelN"
    THEN 0
    ELSE
    CHOOSE r \in {
    CHOOSE r \in {
    CHOOSE r \in {
    CHOOSE r \in {
    CHOOSE r \in {
        1 + Largest({EvolveDepth(pNW, pNW.node), EvolveDepth(pNE, pNE.node),
                     EvolveDepth(pSW, pSW.node), EvolveDepth(pSE, pSE.node)})
    : pSE \in {CanonicalNode(EvolveNode(pSW), i.n11, i.n12, i.n21, i.n22, i.level)} } : TRUE
    : pSW \in {CanonicalNode(EvolveNode(pNE), i.n10, i.n11, i.n20, i.n21, i.level)} } : TRUE
    : pNE \in {CanonicalNode(EvolveNode(pNW), i.n01, i.n02, i.n11, i.n12, i.level)} } : TRUE
    : pNW \in {CanonicalNode(i, i.n00, i.n01, i.n10, i.n11, i.level)} } : TRUE
    : i \in {InnerNodes(h, this)} } : TRUE

(* The centre square of a node of the given level: side 2^(level-1).       *)
CentreSquare(level) ==
    (-(2^(level - 2)) .. 2^(level - 2) - 1) \X (-(2^(level - 2)) .. 2^(level - 2) - 1)

NoneMemoised(map) == \A p \in DOMAIN map : map[p].calc = NULL

(* C27 (as amended): Evolve on a node of level L >= 2 terminates with a    *)
(* recursion depth of at most L-2.  The depth is 0 for a node that is      *)
(* empty or whose result is memoised; it is exactly L-2, the descent       *)
(* reaching the level-2 base case, for a node with a live cell in its      *)
(* centre square while no node of the store is memoised.  Checked for the  *)
(* root and for every empty node of the store.                             *)
C27_DepthAtMost ==
    \A n \in {p \in Nodes : node_map[p].level >= 2 /\ (p = root \/ node_map[p].population = 0)} :
        /\ EvolveDepth(Store, n) <= node_map[n].level - 2
        /\ (node_map[n].calc # NULL \/ node_map[n].population = 0)
               => EvolveDepth(Store, n) = 0
        /\ (NoneMemoised(node_map) /\ CellsOf(Store, n) \cap CentreSquare(node_map[n].level) # {})
               => EvolveDepth(Store, n) = node_map[n].level - 2

(* C27 as stated, for the calls that compute a result (a populated node   *)
(* that is not memoised): the recursion depth of Evolve on a node of level *)
(* L >= 2 is exactly L-2.                                                  *)
C27_DepthExactlyWhenComputed ==
    \A n \in {root} :
        (node_map[n].calc = NULL /\ node_map[n].population # 0)
            => EvolveDepth(Store, n) = node_map[n].level - 2

C27_Witness ==
    /\ last_call = "Canonical"
    /\ node_map[root].level = 4
    /\ node_map[root].population = 3
    /\ CellsOf(Store, root) \cap CentreSquare(4) = {}
    /\ EvolveDepth(Store, root) = 1
    /\ \E n \in Nodes : /\ node_map[n].level = 4
                        /\ node_map[n].population = 0
                        /\ EvolveDepth(Store, n) = 0

(* The nodes Evolve was called on, from the log Evolve keeps: the root     *)
(* Step passes (quad_tree.cpp line 90) and every node EvolveLevelN builds  *)
(* and calls Evolve on (quad_tree_node.cpp 493-496).                       *)
EvolveCalls(log) == {k \in DOMAIN log : k > 0}

(* C28: Evolve is never reached with a node of level below 2.  The root    *)
(* has level >= 2 in every reachable state, so Expand, which Step and      *)
(* SetCellAlive apply to the root only, is never applied to a leaf; and in *)
(* a Step from any reachable state the root passed to Evolve and every     *)
(* node EvolveLevelN calls Evolve on have level >= 2.                      *)
C28_EvolveLevelAtLeast2 ==
    /\ root \in Nodes
    /\ node_map[root].level >= 2
    /\ (Returned /\ node_map[root].population # 0) =>
           \A x \in {ExpandLoop(Store, root)} :
               /\ x.map[x.node].level >= 3
               /\ \A e \in {Evolve(x, x.node)} :
                      /\ x.node \in EvolveCalls(e.log)
                      /\ \A n \in EvolveCalls(e.log) : e.map[n].level >= 2

C28_Witness ==
    /\ last_call = "StepEvolved"
    /\ node_map[root].level = 2
    /\ node_map[root].population # 0
    /\ \E x \in {ExpandLoop(Store, root)} :
           /\ x.map[x.node].level = 4
           /\ \E e \in {Evolve(x, x.node)} :
                  \E n \in EvolveCalls(e.log) :
                      /\ n # x.node
                      /\ e.map[n].level = 2
                      /\ e.map[n].population # 0

(* The number of times the expansion loop of Step called Expand: each call *)
(* returns a node one level above its receiver (quad_tree_node.cpp 100-108)*)
Expansions(h, root_) ==
    CHOOSE k \in {x.map[x.node].level - h.map[root_].level : x \in {ExpandLoop(h, root_)}} : TRUE

(* C29: every Step terminates and its expansion loop runs at most twice.   *)
(* From any reachable root with non-zero population the loop calls Expand  *)
(* at most 2 times and then its condition is false (the root has level >=  *)
(* 3 and each quadrant's population equals that of its innermost           *)
(* grandchild); the root's level after a Step is at most its level before  *)
(* the Step plus 1.                                                        *)
C29_ExpandsAtMostTwice ==
    /\ (Returned /\ root # NULL /\ node_map[root].population # 0) =>
           /\ Expansions(Store, root) \in 0 .. 2
           /\ \A x \in {ExpandLoop(Store, root)} : ~NeedsExpand(x.map, x.node)
    /\ last_call = "StepEvolved" =>
           /\ Len(history) >= 2
           /\ history[Len(history)].level = node_map[root].level
           /\ history[Len(history)].level <= history[Len(history) - 1].level + 1

C29_Witness ==
    /\ last_call = "StepEvolved"
    /\ history[Len(history)].level = history[Len(history) - 1].level + 1
    /\ node_map[root].population # 0
    /\ Expansions(Store, root) = 2

(* C30: for every inner node of level L >= 2, whether L-2 is below the     *)
(* size LEVEL_MAX of the precomputed table or at or above it (the loop),   *)
(* BuildDisplayList passes to each child an origin shifted by exactly      *)
(* 2^(L-2) on each axis: minus for west/north, plus for east/south.        *)
C30_ShiftIsPowerOfTwo ==
    display.level >= 2 =>
        /\ display.offset = Mpz(1, display.level - 2)
        /\ display.shift = [nw |-> <<-1, -1>>, ne |-> <<1, -1>>,
                            sw |-> <<-1, 1>>, se |-> <<1, 1>>]

\* The origins a level-1 node is displayed at
Level1Origins == { <<0, 0>>, <<-2, 2>>, <<5, -3>> }

\* The pairs a level-1 node pushes for its live leaves, in the order nw, ne,
\* sw, se of BuildDisplayList, by the level-1 convention
Level1List(map, n, ox, oy) ==
    (IF map[map[n].nw].alive # 0 THEN << <<ox - 1, oy - 1>> >> ELSE << >>)
    \o (IF map[map[n].ne].alive # 0 THEN << <<ox, oy - 1>> >> ELSE << >>)
    \o (IF map[map[n].sw].alive # 0 THEN << <<ox - 1, oy>> >> ELSE << >>)
    \o (IF map[map[n].se].alive # 0 THEN << <<ox, oy>> >> ELSE << >>)

\* The child position of the level-1 cell (x, y), x and y in {-1, 0}, by the
\* same convention
Level1Quadrant(x, y) ==
    IF x = -1 THEN (IF y = -1 THEN "nw" ELSE "sw") ELSE (IF y = -1 THEN "ne" ELSE "se")

\* C31: level-1 coordinate convention.  A level-1 node displayed at origin
\* (ox, oy) reports its nw, ne, sw, se leaves at (ox-1, oy-1), (ox, oy-1),
\* (ox-1, oy), (ox, oy); and QuadTreeNode::SetCellAlive on it with x and y in
\* {-1, 0} replaces the leaf of that same quadrant by the live leaf and no
\* other child, so that the node it returns displays (x, y) at origin (0, 0)
\* besides the cells displayed before.
C31_Level1Convention ==
    \A n \in {p \in Nodes : node_map[p].level = 1} :
        /\ \A o \in Level1Origins :
               BuildDisplayList(node_map, n, o[1], o[2]) = Level1List(node_map, n, o[1], o[2])
        /\ \A c \in (-1 .. 0) \X (-1 .. 0) :
               \A r \in {NodeSetCellAlive(Store, n, c[1], c[2])} :
                   /\ r.map[r.node].level = 1
                   /\ r.map[r.map[r.node][Level1Quadrant(c[1], c[2])]].alive = 1
                   /\ r.map[r.map[r.node][Level1Quadrant(c[1], c[2])]].level = 0
                   /\ \A q \in {"nw", "ne", "sw", "se"} \ {Level1Quadrant(c[1], c[2])} :
                          r.map[r.node][q] = node_map[n][q]
                   /\ Range(BuildDisplayList(r.map, r.node, 0, 0))
                          = Range(BuildDisplayList(node_map, n, 0, 0)) \cup {c}

C31_Witness ==
    \E n \in Nodes :
        /\ node_map[n].level = 1
        /\ BuildDisplayList(node_map, n, 5, -3) = << <<4, -4>>, <<5, -4>> >>
        /\ Range(BuildDisplayList(NodeSetCellAlive(Store, n, -1, 0).map,
                                  NodeSetCellAlive(Store, n, -1, 0).node, 0, 0))
               = { <<-1, -1>>, <<0, -1>>, <<-1, 0>> }

\* The pairs of distinct child positions
PositionPairs ==
    { <<"nw", "ne">>, <<"nw", "sw">>, <<"nw", "se">>,
      <<"ne", "sw">>, <<"ne", "se">>, <<"sw", "se">> }

\* The node with the pointers at the two positions exchanged
Exchanged(node, pair) ==
    [node EXCEPT ![pair[1]] = node[pair[2]], ![pair[2]] = node[pair[1]]]

\* C32: the hash of an inner node is positionally sensitive in all four
\* child positions: it is symmetric in no pair of positions, that is, for
\* each pair of distinct positions some child pointers give a hash that
\* changes when the two are exchanged.  Over all pointer values of the width
\* this is: the exchanges that never change the hash are none.
C32_PositionallySensitive ==
    \A pair \in PositionPairs :
        \E nw \in Pointers, ne \in Pointers, sw \in Pointers, se \in Pointers :
            HashFunction(Exchanged(Pointed(nw, ne, sw, se), pair))
                # HashFunction(Pointed(nw, ne, sw, se))

\* Two calls of EmptyQuadTree(level) in a row: the second returns the handle
\* of the first, creates no node and leaves the store as it is
EmptyTwiceSame(h, level) ==
    \A first \in {EmptyQuadTree(h, level)} :
        \A second \in {EmptyQuadTree(first, level)} :
            /\ second.node = first.node
            /\ second.created = first.created
            /\ second.map = first.map

\* C33: unique empty node per level.  In every reachable state a stored node
\* of level L has population 0 iff it is the handle EmptyQuadTree(L) returns;
\* and of two calls of EmptyQuadTree(L) with no garbage collection between
\* them the second returns the handle of the first and creates no node.
C33_UniqueEmpty ==
    /\ \A n \in Nodes :
           (node_map[n].population = 0)
               <=> (EmptyQuadTree(Store, node_map[n].level).node = n)
    /\ \A level \in 0 .. MaxEmptyLevel : EmptyTwiceSame(Store, level)

C33_Witness ==
    /\ swept
    /\ node_map[root].population # 0
    /\ \E n \in Nodes : /\ node_map[n].level >= 2
                        /\ node_map[n].population = 0
                        /\ EmptyQuadTree(Store, node_map[n].level).node = n
    /\ \E level \in 0 .. MaxEmptyLevel :
           /\ EmptyQuadTree(Store, level).created > num_nodes_created
           /\ EmptyTwiceSame(Store, level)

Quadrants == {"nw", "ne", "sw", "se"}

\* The corner of a quadrant that lies at the centre of the root
Inmost(q) == CASE q = "nw" -> "se" [] q = "ne" -> "sw" [] q = "sw" -> "ne" [] q = "se" -> "nw"

\* The population test of Step's expansion loop for the quadrant q of the
\* node n: the quadrant's population is that of its inmost grandchild
PopulationForm(map, n, q) ==
    map[map[n][q]].population = map[Child3(map, n, q, Inmost(q), Inmost(q))].population

\* The structural form for the quadrant q of the node n of the store h: the
\* three children of the quadrant other than the inmost are the empty node
StructuralForm(h, n, q) ==
    \A e \in {EmptyQuadTree(h, h.map[n].level - 2)} :
        \A k \in Quadrants \ {Inmost(q)} : Child2(e.map, n, q, k) = e.node

\* The same one level further in: the three children of the quadrant's inmost
\* child other than the inmost are the empty node
StructuralFormWithin(h, n, q) ==
    \A e \in {EmptyQuadTree(h, h.map[n].level - 3)} :
        \A k \in Quadrants \ {Inmost(q)} :
            e.map[Child2(e.map, n, q, Inmost(q))][k] = e.node

\* C34 (as amended): for every node of level >= 3, the population test of
\* Step's expansion loop for a quadrant, such as nw.population =
\* nw.se.se.population, holds exactly when the three outer children of the
\* quadrant (nw.nw, nw.ne, nw.sw) and the three outer children of its inmost
\* child (nw.se.nw, nw.se.ne, nw.se.sw) are all empty nodes.  The population
\* form implies the structural form and not the other way round; the loop
\* ends when the population form holds for the four quadrants.
C34_PopulationFormIsStricter ==
    \A n \in {p \in Nodes : node_map[p].level >= 3} :
        /\ \A q \in Quadrants :
               PopulationForm(node_map, n, q)
                   <=> (StructuralForm(Store, n, q) /\ StructuralFormWithin(Store, n, q))
        /\ ~NeedsExpand(node_map, n) <=> \A q \in Quadrants : PopulationForm(node_map, n, q)
        /\ ~NeedsExpand(node_map, n) => PeripheryEmpty(Store, n)

\* C34 as stated: for every node of level >= 3 the population test for a
\* quadrant holds exactly when the three outer children of the quadrant are
\* empty nodes: the population form and the structural form accept the same
\* roots.
C34_FormsEquivalent ==
    \A n \in {p \in Nodes : node_map[p].level >= 3} :
        \A q \in Quadrants : PopulationForm(node_map, n, q) <=> StructuralForm(Store, n, q)

C34_Witness ==
    /\ last_call = "StepEvolved"
    /\ \E n \in Nodes :
           /\ node_map[n].level >= 3
           /\ PeripheryEmpty(Store, n)
           /\ NeedsExpand(node_map, n)
           /\ \E q \in Quadrants :
                  /\ StructuralForm(Store, n, q)
                  /\ ~StructuralFormWithin(Store, n, q)
                  /\ ~PopulationForm(node_map, n, q)
    /\ \E n \in Nodes :
           /\ node_map[n].level >= 3
           /\ ~NeedsExpand(node_map, n)
           /\ \E q \in Quadrants :
                  /\ node_map[node_map[n][q]].population # 0
                  /\ PopulationForm(node_map, n, q)
                  /\ StructuralForm(Store, n, q)

\* (x, y) lies in the region [-2^(L-1), 2^(L-1) - 1]^2 of a node of level L
InRegion(level, c) ==
    /\ -(2^(level - 1)) <= c[1] /\ c[1] <= 2^(level - 1) - 1
    /\ -(2^(level - 1)) <= c[2] /\ c[2] <= 2^(level - 1) - 1

ProbeCells == { <<4, 4>>, <<-5, 0>>, <<0, -9>>, <<Int64Max, Int64Min>> }

\* C36: a precondition violation is an error outcome, not a result:
\* QuadTreeNode::SetCellAlive called on a node with (x, y) outside the node's
\* region [-2^(L-1), 2^(L-1)-1]^2 never returns a node in which some other
\* cell has been set alive.
C36_NoResultOutsideRegion ==
    Returned =>
        \A n \in Inner :
            \A c \in {p \in ProbeCells : ~InRegion(node_map[n].level, p)} :
                \A r \in {NodeSetCellAlive(Store, n, c[1], c[2])} :
                    CellsOf(r, r.node) \subseteq CellsOf(Store, n)

\* The calc of the node n of the map is the node's successor: the cells of
\* the centre square of half the side, one generation on
CalcIsSuccessor(map, n) ==
    /\ map[map[n].calc].level = map[n].level - 1
    /\ Range(BuildDisplayList(map, map[n].calc, 0, 0))
           = {c \in ConwayNext(Range(BuildDisplayList(map, n, 0, 0))) :
                  InRegion(map[n].level - 1, c)}

\* C37: garbage collection is unobservable.  The universe in which the sweep
\* runs whenever its policy fires and the one started from the same cells in
\* which no sweep is ever run have, after every number of Steps, the same
\* generation counter, root level, population and live cells; and after
\* every sweep the store is canonical and every retained node's calc is
\* itself retained and is the node's successor.
C37_SweepUnobservable ==
    /\ unswept.generations = num_generations
    /\ Shown(unswept.map, unswept.node) = Shown(node_map, root)
    /\ swept =>
          /\ C2_Canonicity
          /\ \A p \in Nodes : node_map[p].calc # NULL =>
                /\ node_map[p].calc \in Nodes
                /\ CalcIsSuccessor(node_map, p)

C37_Witness ==
    /\ swept
    /\ num_generations >= 2 * GARBAGE_COLLECTION_GENERATIONS_COUNT
    /\ Cardinality(cells) >= 5
    /\ Cardinality(Nodes) < Cardinality(DOMAIN unswept.map)
    /\ \E p \in Nodes : node_map[p].calc # NULL /\ node_map[p].population > 0
    /\ Shown(unswept.map, unswept.node) = Shown(node_map, root)
    /\ unswept.generations = num_generations

(***************************************************************************)
(* Two QuadTree objects in one process.  node_map and num_nodes_created    *)
(* are static members and so belong to both; the first object is the one   *)
(* of root and num_generations, the second is other.  The second is        *)
(* constructed, loaded with one pattern and destroyed while the first is   *)
(* loaded and stepped.  A call on an object is made only while every node  *)
(* its root reaches is still in the store.                                 *)
(***************************************************************************)

\* Every node reachable from r through nw, ne, sw, se and calc is in the store
Intact(r) == Closure({r}) \subseteq Nodes

\* QuadTree::QuadTree() of the second object
ConstructOther ==
    /\ other.state = "none"
    /\ \E e \in {EmptyQuadTree(Store, kStartLevels)} :
          /\ node_map' = e.map
          /\ num_nodes_created' = e.created
          /\ other' = [node |-> e.node, state |-> "alive"]
    /\ swept' = FALSE
    /\ UNCHANGED <<root, num_generations, mpz_above_null, cells, inserts, evolved,
                   last_call, steps_evolved, history, display, hashed, unswept>>

\* QuadTree::SetCellsAlive(input) on the second object, called once; the
\* patterns lie in the region of the start level
SetCellsAliveOther(input) ==
    /\ other.state = "alive"
    /\ Intact(other.node)
    /\ node_map[other.node].population = 0
    /\ \E r \in {SetCellsAliveBody(Store, other.node, input, 1)} :
          /\ node_map' = r.map
          /\ num_nodes_created' = r.created
          /\ other' = [node |-> r.node, state |-> "alive"]
    /\ swept' = FALSE
    /\ UNCHANGED <<root, num_generations, mpz_above_null, cells, inserts, evolved,
                   last_call, steps_evolved, history, display, hashed, unswept>>

\* QuadTree::~QuadTree() of the second object: QuadTreeNode::Shutdown deletes
\* every node of node_map and clears the map
DestroyOther ==
    /\ other.state = "alive"
    /\ node_map' = << >>
    /\ evolved' = << >>
    /\ other' = [node |-> NULL, state |-> "destroyed"]
    /\ swept' = FALSE
    /\ UNCHANGED <<num_nodes_created, root, num_generations, mpz_above_null, cells,
                   inserts, last_call, steps_evolved, history, display, hashed, unswept>>

\* QuadTree::SetCellsAlive(input) on the first object
SetCellsAliveFirst(input) == Intact(root) /\ SetCellsAlive(input)

\* QuadTree::Step() on the first object
StepFirst == Intact(root) /\ Step

SharedNext ==
    \/ ConstructOther
    \/ \E input \in PatternLists : SetCellsAliveOther(input)
    \/ DestroyOther
    \/ \E input \in PatternLists : SetCellsAliveFirst(input)
    \/ StepFirst

SharedSpec == Init /\ [][SharedNext]_vars

\* C38: two QuadTree objects alive in the same process share the single
\* static node_map, and no operation on one of them (a garbage collection in
\* its Step, or its destructor calling Shutdown) frees a node that is still
\* reachable from the root of the other.
C38_NoFreeOfReachable ==
    /\ Intact(root)
    /\ other.state = "alive" => Intact(other.node)

=============================================================================
